---------------------------- MODULE Spec2Model ----------------------------
(***************************************************************************)
(* SWEGENT-BENCH: issue mining (issue-hook/issue_crawler.py), repository   *)
(* mining (repo-hook/github_archive) and the snapshot merger               *)
(* (repo-hook/repo_merge/main.py).  Each command-line program is one       *)
(* specification over the shared variable list; a program's specification  *)
(* leaves the other programs' variables at their idle values.              *)
(***************************************************************************)
EXTENDS Integers, Sequences, FiniteSets, TLC

(***************************************************************************)
(* Bounds of the model.                                                    *)
(***************************************************************************)
MaxFiles == 2
MaxIssues == 2
MaxPR == 2
MaxWorkers == 2
MaxCommits == 1
MaxAttempts == 3
MaxCalls == 2

(***************************************************************************)
(* Generic helpers.                                                        *)
(***************************************************************************)
Range(s) == {s[i] : i \in DOMAIN s}

SeqsUpTo(S, n) == UNION {[1..k -> S] : k \in 0..n}

(***************************************************************************)
(* Text: a str is a sequence of one-character strings.                     *)
(***************************************************************************)
UpperLetters ==
  <<"A", "B", "C", "D", "E", "F", "G", "H", "I", "J", "K", "L", "M",
    "N", "O", "P", "Q", "R", "S", "T", "U", "V", "W", "X", "Y", "Z">>

LowerLetters ==
  <<"a", "b", "c", "d", "e", "f", "g", "h", "i", "j", "k", "l", "m",
    "n", "o", "p", "q", "r", "s", "t", "u", "v", "w", "x", "y", "z">>

LowerChar(c) ==
  IF \E i \in DOMAIN UpperLetters : UpperLetters[i] = c
  THEN LowerLetters[CHOOSE i \in DOMAIN UpperLetters : UpperLetters[i] = c]
  ELSE c

UpperChar(c) ==
  IF \E i \in DOMAIN LowerLetters : LowerLetters[i] = c
  THEN UpperLetters[CHOOSE i \in DOMAIN LowerLetters : LowerLetters[i] = c]
  ELSE c

\* str.lower(), str.upper()
Lower(str) == [i \in DOMAIN str |-> LowerChar(str[i])]
Upper(str) == [i \in DOMAIN str |-> UpperChar(str[i])]

IsSpace(c) == c \in {" ", "\n", "\t"}

\* str.strip(): leading and trailing whitespace removed.
RECURSIVE LStrip(_)
LStrip(str) ==
  IF str # <<>> /\ IsSpace(Head(str)) THEN LStrip(Tail(str)) ELSE str

RECURSIVE RStrip(_)
RStrip(str) ==
  IF str # <<>> /\ IsSpace(str[Len(str)]) THEN RStrip(SubSeq(str, 1, Len(str) - 1))
  ELSE str

Strip(str) == RStrip(LStrip(str))

\* str[:n]
Slice(str, n) == SubSeq(str, 1, IF Len(str) < n THEN Len(str) ELSE n)

\* str.startswith(prefix)
StrStartsWith(str, prefix) ==
  Len(str) >= Len(prefix) /\ SubSeq(str, 1, Len(prefix)) = prefix

\* sub in str
Contains(str, sub) ==
  \E i \in 1..(Len(str) - Len(sub) + 1) : SubSeq(str, i, i + Len(sub) - 1) = sub

(***************************************************************************)
(* forge/api.py: the text-generation service.  One call ends in a text     *)
(* (possibly empty), in a completion without content (None) or in an       *)
(* exception.                                                              *)
(***************************************************************************)
Responses ==
  {
   <<>>,   \* ''
   <<"Y", "e", "s">>,   \* 'Yes'
   <<"Y", "E", "S">>,   \* 'YES'
   <<"y", "e", "s">>,   \* 'yes'
   <<"y", "E", "s">>,   \* 'yEs'
   <<"Y", "e", "s", ".">>,   \* 'Yes.'
   <<"Y", "e", "s", ",", " ", "b", "u", "t">>,   \* 'Yes, but'
   <<"N", "o">>,   \* 'No'
   <<"N", "O">>,   \* 'NO'
   <<"M", "a", "y", "b", "e">>,   \* 'Maybe'
   <<"M", "a", "y", "b", "e", " ", "y", "e", "s">>,   \* 'Maybe yes'
   <<"Y", "e", "s", ",", " ", "n", "o", " ", "d", "o", "u", "b", "t">>,   \* 'Yes, no doubt'
   <<"Y", "e", "s", ",", " ", "k", "n", "o", "w", "n", " ", "b", "u", "g">>,   \* 'Yes, known bug'
   <<"Y", "e", "s", " ", "i", "n", "d", "e", "e", "d", ",", " ", "n", "o", " ", "d", "o", "u", "b", "t">>,   \* 'Yes indeed, no doubt'
   <<"Y", "e", "s", ",", " ", "i", "t", " ", "i", "s", " ", "n", "o">>,   \* 'Yes, it is no'
   <<" ", "Y", "e", "s">>,   \* ' Yes'
   <<"\n", "Y", "E", "S", "\n">>,   \* '<newline>YES<newline>'
   <<"Y", "E", "S", "T", "E", "R", "D", "A", "Y">>,   \* 'YESTERDAY'
   <<"N", "o", ".", " ", "y", "e", "s">>,   \* 'No. yes'
   <<"Y">>,   \* 'Y'
   <<"Y", "E">>,   \* 'YE'
   <<"N", "o", "t", " ", "s", "u", "r", "e", " ", "a", "t", " ", "a", "l", "l", ",", " ", "y", "e", "s">>,   \* 'Not sure at all, yes'
   <<" ", " ", " ">>,   \* '   '
   <<"e", "y", "e", "s">>   \* 'eyes'
  }

LLMOutcomes ==
  {[kind |-> "text", text |-> r] : r \in Responses}
  \cup {[kind |-> "none", text |-> <<>>], [kind |-> "error", text |-> <<>>]}

\* A str-or-None value.
Str(text) == [none |-> FALSE, text |-> text]
None == [none |-> TRUE, text |-> <<>>]

\* LLMClient.chat: the completion's content; "" when the call raises.
chat(outcome) ==
  IF outcome.kind = "error" THEN Str(<<>>)
  ELSE IF outcome.kind = "none" THEN None
  ELSE Str(outcome.text)

\* LLMClient.simple_chat: builds the messages and returns chat's result.
simple_chat(outcome) == chat(outcome)

VARIABLES
  \* ---- a function of the program called on its own ----
  fn_args,        \* the arguments of the call
  fn_ret,         \* what the call returned, <<>> before
  fn_pc,          \* idle, called, returned
  \* ---- github_archive/github_api.py: get_repos_info_batch ----
  token,          \* self.token is set
  repo_names,     \* the names asked for
  batch_size,     \* get_repos_info_batch_graphql's batch_size
  results,        \* results: name -> info, NoInfo for None
  cache,          \* self.cache: name -> info
  bpc,            \* idle, called, graphql, pool, done
  bi,             \* start of the next GraphQL batch in repo_names
  responses,      \* history: the GraphQL batches and what was answered
  rest_queue,     \* names of the current batch still to look up one by one
  fallbacks,      \* history: get_repo_info calls of the fallback, [name, ret]
  wpc,            \* pool: where each submitted get_repo_info call is
  wret,           \* pool: what each call returns
  \* ---- issue_crawler.py: the progress lines of the pool's workers ----
  print_lock,     \* self.print_lock: the worker holding it, 0 when free
  path,           \* per worker: the print statements its item goes through
  at,             \* per worker: the print statement it is at
  phase,          \* per worker: before, locked, writing, written
  \* ---- issue_crawler.py: _get_all_closed_issues ----
  page,           \* the page to request next
  page_log,       \* history: what each request was answered, [page, data]
  issue_count,    \* len(issues)
  page_pc,        \* idle, loop, returned
  \* ---- github_archive/github_api.py: request_count and get_repo_info ----
  loaded,         \* pool: per call, the answer it parsed and the request_count it read
  succeeded,      \* history: the number of requests that returned data
  lookups,        \* history: the get_repo_info calls made one after another
  \* ---- repo_merge/main.py ----
  json_files,     \* the data directory: its *.json files, as sorted(json_files)
  args,           \* main's arguments: [detailed, output]
  repos,          \* RepoMerger.repos: repo name -> record
  mpc,            \* position of the merge program
  file_idx,       \* merge_all's loop position in json_files
  pending,        \* process_json_file: extracted tuples not yet merged
  folded,         \* history: every tuple merge_repo has folded into repos
  run,            \* 1: first merge, 2: the repeated merge
  first_result,   \* history: (name, stars, sources) of every record after run 1
  failed,         \* history: the files whose processing raised
  \* ---- issue-hook/issue_crawler.py ----
  use_local_clone,   \* GitHubIssueCrawler.use_local_clone
  local_repo_path,   \* GitHubIssueCrawler.local_repo_path is set
  issues,            \* filter_issues's argument: the closed issues, as fetched
  task,              \* per submitted issue: the state of its _process_single_issue
  calls,             \* history, per issue: the adapter calls made for it, in order
  trace,             \* history: calls also keeps what each adapter was answered
  max_workers,       \* GitHubIssueCrawler.max_workers
  collected,         \* the issues whose result filter_issues has taken
  filtered_issues,   \* filter_issues's list, then batch_ai_judgment's argument
  ipc,               \* position of the issue program
  ai_idx,            \* batch_ai_judgment's loop position
  agent_issues,      \* batch_ai_judgment's list
  issue_json,        \* save_results: the written issue.json, <<>> before
  \* ---- repo-hook/github_archive/agent_filter.py ----
  use_ai,            \* AgentRepoFilter.use_ai
  keyword_passed,    \* filter_repos: the repositories that passed step 3
  ai_i,              \* filter_repos: step 4's loop position
  ai_passed,         \* filter_repos: step 4's list
  agent_repos,       \* filter_repos's return value, <<>> before
  rpc,               \* position of the repository filter
  repos_info,        \* filter_repos's argument: the candidates' names
  min_stars,         \* filter_repos's argument
  batch_results,     \* filter_repos: get_repos_info_batch's result, name -> info
  star_passed,       \* filter_repos: the repositories that passed step 2
  kw,                \* per star_passed entry: the state of its check_repo_keywords
  readme_calls,      \* history: the get_repo_readme calls, [name, step]
  \* ---- repo-hook: GitHubAPI._make_request, AwesomeRepoSearcher._make_request ----
  gate,              \* the class whose _make_request is called
  gpc,               \* position of the running call: idle, request, cooldown
  url,               \* the running call's URL
  attempts,          \* history: HTTP attempts of the running call, counted up to MaxAttempts
  sleeps,            \* history: cooldown sleeps of the running call, counted up to MaxAttempts
  statuses,          \* history: the answers to the running call's first MaxAttempts attempts
  done_calls,        \* history: the calls that have returned
  request_count,     \* GitHubAPI.request_count
  \* ---- forge/api.py ----
  llm_calls          \* history: every simple_chat call, [item, outcome], where
                     \* item is the position of the classified item in its list

merge_vars == <<json_files, args, repos, mpc, file_idx, pending, folded, run, first_result,
               failed>>

issue_vars == <<use_local_clone, local_repo_path, max_workers, issues, task, calls, trace, collected,
                filtered_issues, ipc, ai_idx, agent_issues, issue_json>>

repo_vars == <<use_ai, keyword_passed, ai_i, ai_passed, agent_repos, rpc,
              repos_info, min_stars, batch_results, star_passed, kw, readme_calls>>

gate_vars == <<gate, gpc, url, attempts, sleeps, statuses, done_calls, request_count>>

fn_vars == <<fn_args, fn_ret, fn_pc>>

batch_vars == <<token, repo_names, batch_size, results, cache, bpc, bi, responses,
               rest_queue, fallbacks, wpc, wret>>

print_vars == <<print_lock, path, at, phase>>

page_vars == <<page, page_log, issue_count, page_pc>>

api_vars == <<loaded, succeeded, lookups>>

aux_vars == <<fn_vars, batch_vars, print_vars, page_vars, api_vars>>

vars == <<merge_vars, issue_vars, repo_vars, gate_vars, llm_calls, aux_vars>>

\* A program that is not run.
MergeIdle ==
  /\ json_files = <<>>
  /\ args = [detailed |-> FALSE, output |-> [prefix |-> "agent_repo", stem |-> 0]]
  /\ repos = <<>>
  /\ mpc = "idle"
  /\ file_idx = 1
  /\ pending = <<>>
  /\ folded = {}
  /\ run = 1
  /\ first_result = {}
  /\ failed = {}

IssueIdle ==
  /\ use_local_clone = FALSE
  /\ local_repo_path = FALSE
  /\ max_workers = MaxWorkers
  /\ trace = FALSE
  /\ issues = <<>>
  /\ task = <<>>
  /\ calls = <<>>
  /\ collected = {}
  /\ filtered_issues = <<>>
  /\ ipc = "idle"
  /\ ai_idx = 1
  /\ agent_issues = <<>>
  /\ issue_json = <<>>

FnIdle ==
  /\ fn_args = <<>>
  /\ fn_ret = <<>>
  /\ fn_pc = "idle"

BatchIdle ==
  /\ token = FALSE
  /\ repo_names = <<>>
  /\ batch_size = 0
  /\ results = <<>>
  /\ cache = <<>>
  /\ bpc = "idle"
  /\ bi = 1
  /\ responses = <<>>
  /\ rest_queue = <<>>
  /\ fallbacks = <<>>
  /\ wpc = <<>>
  /\ wret = <<>>

PrintIdle ==
  /\ print_lock = 0
  /\ path = <<>>
  /\ at = <<>>
  /\ phase = <<>>

PageIdle ==
  /\ page = 1
  /\ page_log = <<>>
  /\ issue_count = 0
  /\ page_pc = "idle"

ApiIdle ==
  /\ loaded = <<>>
  /\ succeeded = 0
  /\ lookups = <<>>

AuxIdle == FnIdle /\ BatchIdle /\ PrintIdle /\ PageIdle /\ ApiIdle

GateIdle ==
  /\ gate = "none"
  /\ gpc = "idle"
  /\ url = "none"
  /\ attempts = 0
  /\ sleeps = 0
  /\ statuses = <<>>
  /\ done_calls = <<>>
  /\ request_count = 0

RepoIdle ==
  /\ use_ai = FALSE
  /\ keyword_passed = <<>>
  /\ ai_i = 1
  /\ ai_passed = <<>>
  /\ agent_repos = <<>>
  /\ rpc = "idle"
  /\ repos_info = <<>>
  /\ min_stars = 0
  /\ batch_results = <<>>
  /\ star_passed = <<>>
  /\ kw = <<>>
  /\ readme_calls = <<>>

(***************************************************************************)
(* repo_merge: snapshot files.                                             *)
(*   A filename is [prefix, stem]; its text is prefix ++ stem ++ ".json".  *)
(*   A file's data is what json.load returns: "bad" (json.load raises),    *)
(*   a list (the merger's own simple-mode output) or a dict.               *)
(***************************************************************************)
RepoNames == {"n1", "n2"}
StarValues == {0, 100, 150}
AwesomeLists == {"aw1", "aw2"}

ArchivePrefix == "github_archive_repo_"
RepoPrefix == "github_repo_"
OtherPrefix == "snapshot_"

\* agent_repo.json, the default output; stem 0 is no date.
OutputName == [prefix |-> "agent_repo", stem |-> 0]

\* The order sorted() gives Path objects: by the text of the name.
PrefixRank(p) ==
  CASE p = "agent_repo" -> 0
    [] p = ArchivePrefix -> 1
    [] p = RepoPrefix -> 2
    [] OTHER -> 3

NameLess(a, b) ==
  \/ PrefixRank(a.prefix) < PrefixRank(b.prefix)
  \/ PrefixRank(a.prefix) = PrefixRank(b.prefix) /\ a.stem < b.stem

IsSortedDir(d) == \A i \in 1..(Len(d) - 1) : NameLess(d[i].name, d[i + 1].name)

StartsWith(filename, prefix) == filename.prefix = prefix

\* An agent_repos entry: an object {name, stars} or a bare string.
ObjEntry(n, s) == [kind |-> "dict", name |-> n, stars |-> s]
StrEntry(n) == [kind |-> "str", name |-> n]

\* dict data: agent_repos (a list), awesome_repos, repo_sources
DictData(ar, aw, rs) ==
  [kind |-> "dict", has_agent_repos |-> TRUE, agent_repos |-> ar,
   awesome_repos |-> aw, repo_sources |-> rs]

\* the merger's detailed output: {generated_at, statistics, repositories}
DetailedData == [kind |-> "dict", has_agent_repos |-> FALSE, agent_repos |-> <<>>,
                 awesome_repos |-> <<>>, repo_sources |-> <<>>]

\* the merger's detailed output as main writes it, with its 'repositories'
DetailedOutput(repo_list) ==
  [kind |-> "dict", has_agent_repos |-> FALSE, agent_repos |-> <<>>,
   awesome_repos |-> <<>>, repo_sources |-> <<>>, repositories |-> repo_list]

\* the merger's simple output: a bare list of names
ListData(names) == [kind |-> "list", items |-> names]

BadData == [kind |-> "bad"]

(***************************************************************************)
(* repo_merge: RepoMerger.                                                 *)
(***************************************************************************)
\* detect_json_type: filename prefix first, then the shape of agent_repos[0].
detect_json_type(data, filename) ==
  IF StartsWith(filename, ArchivePrefix) THEN "github_archive"
  ELSE IF StartsWith(filename, RepoPrefix) THEN "github_repo"
  ELSE IF data.kind = "dict" /\ data.has_agent_repos /\ Len(data.agent_repos) > 0
       THEN IF data.agent_repos[1].kind = "dict" THEN "github_archive"
            ELSE IF data.agent_repos[1].kind = "str" THEN "github_repo"
            ELSE "unknown"
       ELSE "unknown"

\* The tuple extract_repos_from_github_archive builds for one dict entry.
ArchiveTuple(e, source_file) ==
  [name |-> e.name, stars |-> e.stars, source |-> source_file,
   source_type |-> "github_archive", original_sources |-> <<>>]

\* extract_repos_from_github_archive: entries that are not dicts are passed over.
\* data.get raises on a list.
RECURSIVE ArchiveTuples(_, _)
ArchiveTuples(entries, source_file) ==
  IF entries = <<>> THEN <<>>
  ELSE LET rest == ArchiveTuples(Tail(entries), source_file)
       IN IF Head(entries).kind = "dict"
          THEN <<ArchiveTuple(Head(entries), source_file)>> \o rest
          ELSE rest

extract_repos_from_github_archive(data, source_file) ==
  IF data.kind # "dict" THEN [ok |-> FALSE, repos |-> <<>>]
  ELSE [ok |-> TRUE, repos |-> ArchiveTuples(data.agent_repos, source_file)]

\* The stars of the first awesome_repos entry named repo_name, else 0.
RECURSIVE AwesomeStars(_, _)
AwesomeStars(awesome_repos, repo_name) ==
  IF awesome_repos = <<>> THEN 0
  ELSE IF Head(awesome_repos).name = repo_name THEN Head(awesome_repos).stars
  ELSE AwesomeStars(Tail(awesome_repos), repo_name)

RepoTuple(data, e, source_file) ==
  [name |-> e.name, stars |-> AwesomeStars(data.awesome_repos, e.name),
   source |-> source_file, source_type |-> "github_repo",
   original_sources |-> IF e.name \in DOMAIN data.repo_sources
                        THEN data.repo_sources[e.name] ELSE <<>>]

\* extract_repos_from_github_repo: repo_sources.get(entry) raises TypeError on a
\* dict entry (unhashable), data.get raises on a list.
extract_repos_from_github_repo(data, source_file) ==
  IF data.kind # "dict" THEN [ok |-> FALSE, repos |-> <<>>]
  ELSE IF \E i \in DOMAIN data.agent_repos : data.agent_repos[i].kind # "str"
       THEN [ok |-> FALSE, repos |-> <<>>]
  ELSE [ok |-> TRUE,
        repos |-> [i \in DOMAIN data.agent_repos |->
                     RepoTuple(data, data.agent_repos[i], source_file)]]

\* merge_repo's first half: the record of repo_info's name, created on first sight.
RepoRecord(rs, repo_info) ==
  IF repo_info.name \in DOMAIN rs THEN rs[repo_info.name]
  ELSE [name |-> repo_info.name, stars |-> repo_info.stars, sources |-> <<>>,
        source_types |-> {}, original_sources |-> {},
        first_seen |-> repo_info.source,
        ins |-> Cardinality(DOMAIN rs) + 1]

\* self.repos with the record of name replaced by new.
WithRecord(rs, name, new) ==
  [n \in DOMAIN rs \cup {name} |-> IF n = name THEN new ELSE rs[n]]

\* A merge_repo that assigns the incoming stars.
merge_repo_last_stars(rs, repo_info) ==
  LET cur == RepoRecord(rs, repo_info)
  IN WithRecord(rs, repo_info.name,
       [cur EXCEPT
          !.sources = IF repo_info.source \in Range(cur.sources) THEN @
                      ELSE Append(@, repo_info.source),
          !.source_types = @ \cup {repo_info.source_type},
          !.stars = repo_info.stars,
          !.original_sources = @ \cup Range(repo_info.original_sources)])

\* A merge_repo that assigns the incoming source type.
merge_repo_last_type(rs, repo_info) ==
  LET cur == RepoRecord(rs, repo_info)
  IN WithRecord(rs, repo_info.name,
       [cur EXCEPT
          !.sources = IF repo_info.source \in Range(cur.sources) THEN @
                      ELSE Append(@, repo_info.source),
          !.source_types = {repo_info.source_type},
          !.stars = IF repo_info.stars > @ THEN repo_info.stars ELSE @,
          !.original_sources = @ \cup Range(repo_info.original_sources)])

\* A merge_repo that appends the source without looking for it first.
merge_repo_append_source(rs, repo_info) ==
  LET cur == RepoRecord(rs, repo_info)
  IN WithRecord(rs, repo_info.name,
       [cur EXCEPT
          !.sources = Append(@, repo_info.source),
          !.source_types = @ \cup {repo_info.source_type},
          !.stars = IF repo_info.stars > @ THEN repo_info.stars ELSE @,
          !.original_sources = @ \cup Range(repo_info.original_sources)])

\* A "stars" that is null in the file: None in Python, which ">" does not
\* compare with a number or with None.
NullStars == -1

\* "repo_info.get('stars', 0) > repo['stars']" does not raise TypeError.
StarsComparable(rs, repo_info) ==
  repo_info.stars # NullStars /\ RepoRecord(rs, repo_info).stars # NullStars

\* merge_repo up to the comparison of the stars: the record is there, with the
\* source and the source type added.
merge_repo_until_stars(rs, repo_info) ==
  LET cur == RepoRecord(rs, repo_info)
  IN WithRecord(rs, repo_info.name,
       [cur EXCEPT
          !.sources = IF repo_info.source \in Range(cur.sources) THEN @
                      ELSE Append(@, repo_info.source),
          !.source_types = @ \cup {repo_info.source_type}])

\* merge_repo: create the record on first sight, then add the source (once),
\* the source type, the larger stars and the original sources.
merge_repo(rs, repo_info) ==
  LET cur == RepoRecord(rs, repo_info)
  IN WithRecord(rs, repo_info.name,
       [cur EXCEPT
          !.sources = IF repo_info.source \in Range(cur.sources) THEN @
                      ELSE Append(@, repo_info.source),
          !.source_types = @ \cup {repo_info.source_type},
          !.stars = IF repo_info.stars > @ THEN repo_info.stars ELSE @,
          !.original_sources = @ \cup Range(repo_info.original_sources)])

RECURSIVE MergeTuples(_, _)
MergeTuples(rs, tuples) ==
  IF tuples = <<>> THEN rs ELSE MergeTuples(merge_repo(rs, Head(tuples)), Tail(tuples))

\* What process_json_file extracts from one file: <<>> when json.load or the
\* extraction raises (the except branch) and when the type is unknown.
Extracted(file) ==
  IF file.data.kind = "bad" THEN <<>>
  ELSE LET file_type == detect_json_type(file.data, file.name)
       IN IF file_type = "unknown" THEN <<>>
          ELSE IF file_type = "github_archive"
               THEN extract_repos_from_github_archive(file.data, file.name).repos
               ELSE extract_repos_from_github_repo(file.data, file.name).repos

\* process_json_file takes the except branch before anything is merged:
\* json.load or the extraction raised.
Raises(file) ==
  \/ file.data.kind = "bad"
  \/ LET file_type == detect_json_type(file.data, file.name)
     IN \/ file_type = "github_archive"
           /\ ~extract_repos_from_github_archive(file.data, file.name).ok
        \/ file_type = "github_repo"
           /\ ~extract_repos_from_github_repo(file.data, file.name).ok

\* merge_all as a function of the directory: every file but agent_repo.json,
\* in sorted order, folded into rs.
RECURSIVE MergeFiles(_, _)
MergeFiles(rs, files) ==
  IF files = <<>> THEN rs
  ELSE IF Head(files).name = OutputName THEN MergeFiles(rs, Tail(files))
  ELSE MergeFiles(MergeTuples(rs, Extracted(Head(files))), Tail(files))

\* build_result: the records in insertion order, then a stable sort by stars,
\* descending (list.sort(key=stars, reverse=True)).
RECURSIVE InsertByStars(_, _)
InsertByStars(sorted, r) ==
  IF sorted = <<>> THEN <<r>>
  ELSE IF Head(sorted).stars >= r.stars
       THEN <<Head(sorted)>> \o InsertByStars(Tail(sorted), r)
       ELSE <<r>> \o sorted

SortByStars_unsorted(list) == list

RECURSIVE SortByStars(_)
SortByStars(list) ==
  IF list = <<>> THEN <<>>
  ELSE InsertByStars(SortByStars(SubSeq(list, 1, Len(list) - 1)), list[Len(list)])

\* self.repos.items(): the records in the order their names were first merged.
RECURSIVE InsertionOrder(_, _)
InsertionOrder(rs, k) ==
  IF k > Cardinality(DOMAIN rs) THEN <<>>
  ELSE <<CHOOSE n \in DOMAIN rs : rs[n].ins = k>> \o InsertionOrder(rs, k + 1)

build_result(rs) ==
  LET names == InsertionOrder(rs, 1)
      repo_list == [i \in DOMAIN names |->
                      [name |-> names[i], stars |-> rs[names[i]].stars,
                       sources |-> rs[names[i]].sources,
                       source_types |-> rs[names[i]].source_types,
                       original_sources |-> rs[names[i]].original_sources,
                       source_count |-> Len(rs[names[i]].sources)]]
  IN SortByStars(repo_list)

(***************************************************************************)
(* repo_merge: the directories the merge program is run on.                *)
(*   github_archive_repo_<date>.json is written by github_archive/main.py: *)
(*   agent_repos is filter_repos's result, objects {name, stars} with the  *)
(*   AI filter on and bare names with it off.  github_repo_<date>.json is  *)
(*   written by github/main.py: bare names, the awesome lists with their   *)
(*   stars, and for every listed name the lists it was found in.           *)
(***************************************************************************)
ObjStars == StarValues \ {0}

\* Both writers list a repository once: sequences of distinct names.
NameLists ==
  {l \in SeqsUpTo(RepoNames, Cardinality(RepoNames)) :
     \A i, j \in DOMAIN l : i # j => l[i] # l[j]}

ObjLists ==
  UNION {{[i \in DOMAIN l |-> ObjEntry(l[i], st[i])] : st \in [DOMAIN l -> ObjStars]} :
           l \in NameLists}

StrLists == {[i \in DOMAIN l |-> StrEntry(l[i])] : l \in NameLists}

ArchiveData == {DictData(ar, <<>>, <<>>) : ar \in ObjLists \cup StrLists}

AwesomeRepos ==
  {<<[name |-> "aw1", stars |-> 150]>>,
   <<[name |-> "n1", stars |-> 150], [name |-> "n1", stars |-> 100]>>}

AwesomeData ==
  {DictData(ar, aw, [n \in {ar[i].name : i \in DOMAIN ar} |-> ol]) :
     ar \in StrLists, aw \in AwesomeRepos, ol \in {<<"aw1">>, <<"aw2", "aw1">>}}

\* Snapshots under another name: copies of the above about n1, and a detailed
\* merge output.
OtherData ==
  {x \in ArchiveData \cup AwesomeData :
     /\ Len(x.agent_repos) <= 1
     /\ \A i \in DOMAIN x.agent_repos :
          x.agent_repos[i].kind = "dict" /\ x.agent_repos[i].name = "n1"}
  \cup {DetailedData}
  \cup {x \in AwesomeData : x.agent_repos = <<StrEntry("n1")>>}

SnapshotContents ==
  {[prefix |-> ArchivePrefix, data |-> x] : x \in ArchiveData \cup {BadData}}
  \cup {[prefix |-> RepoPrefix, data |-> x] : x \in AwesomeData}
  \cup {[prefix |-> OtherPrefix, data |-> x] : x \in OtherData}

\* The k-th file of a prefix is dated k: names are distinct and the listing is
\* the sorted one.
Dated(c) ==
  [i \in DOMAIN c |->
     [name |-> [prefix |-> c[i].prefix,
                stem |-> Cardinality({j \in 1..i : c[j].prefix = c[i].prefix})],
      data |-> c[i].data]]

Directories ==
  {Dated(c) : c \in {x \in SeqsUpTo(SnapshotContents, MaxFiles) :
                       \A i \in 1..(Len(x) - 1) :
                         PrefixRank(x[i].prefix) <= PrefixRank(x[i + 1].prefix)}}

\* The directory after open(path, 'w') of file f: replaced if there, else added,
\* and listed in sorted order.
RECURSIVE WriteFile(_, _)
WriteFile(dir, f) ==
  IF dir = <<>> THEN <<f>>
  ELSE IF Head(dir).name = f.name THEN <<f>> \o Tail(dir)
  ELSE IF NameLess(f.name, Head(dir).name) THEN <<f>> \o dir
  ELSE <<Head(dir)>> \o WriteFile(Tail(dir), f)

OutputNames ==
  {OutputName, [prefix |-> OtherPrefix, stem |-> 0],
   [prefix |-> RepoPrefix, stem |-> 0]}

NoRepos == [n \in {} |-> 0]

\* (name, stars, sources) of every record.
Projection(rs) ==
  {[name |-> n, stars |-> rs[n].stars, sources |-> rs[n].sources] : n \in DOMAIN rs}

(***************************************************************************)
(* repo_merge: the program.                                                *)
(***************************************************************************)
MergeInit ==
  /\ json_files \in Directories
  /\ args = [detailed |-> FALSE, output |-> OutputName]
  /\ repos = NoRepos
  /\ mpc = "merge_all"
  /\ file_idx = 1
  /\ pending = <<>>
  /\ folded = {}
  /\ run = 1
  /\ first_result = {}
  /\ failed = {}
  /\ IssueIdle
  /\ RepoIdle
  /\ GateIdle
  /\ AuxIdle
  /\ llm_calls = <<>>

\* merge_all's loop body: agent_repo.json is passed over; process_json_file loads
\* the file, detects its type and extracts its tuples (nothing on "unknown" or on
\* an exception).
ProcessJsonFile ==
  /\ mpc = "merge_all"
  /\ file_idx <= Len(json_files)
  /\ LET file == json_files[file_idx]
         tuples == IF file.name = OutputName THEN <<>> ELSE Extracted(file)
     IN /\ pending' = tuples
        /\ mpc' = IF tuples = <<>> THEN "merge_all" ELSE "merging"
        /\ failed' = IF file.name # OutputName /\ Raises(file)
                      THEN failed \cup {file.name} ELSE failed
  /\ file_idx' = file_idx + 1
  /\ UNCHANGED <<json_files, args, repos, folded, run, first_result, issue_vars, repo_vars, llm_calls, gate_vars, aux_vars>>

\* process_json_file's loop "for repo_info in repos: self.merge_repo(repo_info)".
MergeRepo ==
  /\ mpc = "merging"
  /\ StarsComparable(repos, Head(pending))
  /\ repos' = merge_repo(repos, Head(pending))
  /\ folded' = folded \cup {Head(pending)}
  /\ pending' = Tail(pending)
  /\ mpc' = IF Tail(pending) = <<>> THEN "merge_all" ELSE "merging"
  /\ UNCHANGED <<json_files, args, file_idx, run, first_result, failed, issue_vars, repo_vars, llm_calls, gate_vars, aux_vars>>

\* The same loop when merge_repo raises: the except branch of process_json_file
\* ends the loop, with self.repos as merge_repo left it.
MergeRepoRaises ==
  /\ mpc = "merging"
  /\ ~StarsComparable(repos, Head(pending))
  /\ repos' = merge_repo_until_stars(repos, Head(pending))
  /\ pending' = <<>>
  /\ failed' = failed \cup {Head(pending).source}
  /\ mpc' = "merge_all"
  /\ UNCHANGED <<json_files, args, file_idx, folded, run, first_result, issue_vars, repo_vars, llm_calls, gate_vars, aux_vars>>

\* main after merge_all: nothing is written when the directory held no JSON file;
\* otherwise the detailed result or the bare name list goes to args.output.
OutputData(a, rs) ==
  IF a.detailed THEN DetailedOutput(build_result(rs))
  ELSE LET res == build_result(rs) IN ListData([i \in DOMAIN res |-> res[i].name])

Main ==
  /\ mpc = "merge_all"
  /\ file_idx > Len(json_files)
  /\ \E a \in [detailed : BOOLEAN, output : OutputNames] :
       /\ run = 1 \/ a = args
       /\ args' = a
       /\ json_files' = IF json_files = <<>> THEN json_files
                        ELSE WriteFile(json_files, [name |-> a.output,
                                                    data |-> OutputData(a, repos)])
  /\ mpc' = "saved"
  /\ first_result' = IF run = 1 THEN Projection(repos) ELSE first_result
  /\ UNCHANGED <<repos, file_idx, pending, folded, run, failed, issue_vars, repo_vars, llm_calls, gate_vars, aux_vars>>

\* The merge is run again over the directory as it now is: by a new RepoMerger
\* (fresh) or by a second merge_all of the same one.
Rerun ==
  /\ mpc = "saved"
  /\ run = 1
  /\ run' = 2
  /\ \E fresh \in BOOLEAN :
       /\ repos' = IF fresh THEN NoRepos ELSE repos
       /\ folded' = IF fresh THEN {} ELSE folded
       /\ failed' = IF fresh THEN {} ELSE failed
  /\ mpc' = "merge_all"
  /\ file_idx' = 1
  /\ pending' = <<>>
  /\ UNCHANGED <<json_files, args, first_result, issue_vars, repo_vars, llm_calls, gate_vars, aux_vars>>

MergeNext == ProcessJsonFile \/ MergeRepo \/ Main \/ Rerun

SpecMerge == MergeInit /\ [][MergeNext]_vars

(***************************************************************************)
(* Claims about the merger.                                                *)
(***************************************************************************)
TuplesOf(n) == {t \in folded : t.name = n}

MaxOf(S) == CHOOSE m \in S : \A x \in S : x <= m

\* C8: after any sequence of merge_repo folds, the stars stored for every
\* repository name are the maximum of the stars of all tuples folded so far for
\* that name (so a later tuple with fewer stars never lowers them).
C8_StarsAreMaximum ==
  /\ DOMAIN repos = {t.name : t \in folded}
  /\ \A n \in DOMAIN repos : repos[n].stars = MaxOf({t.stars : t \in TuplesOf(n)})

\* A name whose latest contributing file carried fewer stars than an earlier one.
C8_Witness ==
  \E n \in DOMAIN repos :
    /\ Len(repos[n].sources) >= 2
    /\ \E t \in TuplesOf(n) :
         /\ t.source = repos[n].sources[Len(repos[n].sources)]
         /\ t.stars < repos[n].stars
    /\ \E t \in TuplesOf(n) :
         /\ t.source = repos[n].sources[1]
         /\ t.stars = repos[n].stars

C9_Exact ==
  \A n \in DOMAIN repos :
    /\ Range(repos[n].sources) = {t.source : t \in TuplesOf(n)}
    /\ Cardinality(Range(repos[n].sources)) = Len(repos[n].sources)
    /\ repos[n].source_types = {t.source_type : t \in TuplesOf(n)}
    /\ repos[n].original_sources = UNION {Range(t.original_sources) : t \in TuplesOf(n)}

C9_Grows ==
  run' = run =>
    \A n \in DOMAIN repos :
      /\ n \in DOMAIN repos'
      /\ Range(repos[n].sources) \subseteq Range(repos'[n].sources)
      /\ repos[n].source_types \subseteq repos'[n].source_types
      /\ repos[n].original_sources \subseteq repos'[n].original_sources

\* C9: at every point of a merge, each record's sources are exactly the
\* duplicate-free set of filenames that contributed a tuple for its name, its
\* source_types and original_sources exactly the unions of what the tuples
\* carried, and no step of the merge removes an element from any of them.
C9_ProvenanceIsUnion == []C9_Exact /\ [][C9_Grows]_vars

\* Scenario 5: a name listed by an archive-shaped and by a string-shaped snapshot.
C9_Witness ==
  \E n \in DOMAIN repos :
    /\ Len(repos[n].sources) = 2
    /\ repos[n].source_types = {"github_archive", "github_repo"}
    /\ repos[n].original_sources # {}
    /\ repos[n].stars = 150
    /\ \E t \in TuplesOf(n) : t.source_type = "github_archive" /\ t.stars = 100

\* C10: merging again (the same merger folding the files a second time, or a new
\* merger run over the directory that now also holds the merge output) ends with
\* the same (name, stars, sources) for every repository as the first merge.
C10_MergeIdempotent ==
  (run = 2 /\ mpc = "saved") => Projection(repos) = first_result

\* A second merge has ended, over a directory that holds the first one's output
\* under a snapshot name, with a record that has two sources.
C10_Witness ==
  /\ run = 2
  /\ mpc = "saved"
  /\ \E i \in DOMAIN json_files :
       json_files[i].name = [prefix |-> RepoPrefix, stem |-> 0]
  /\ \E n \in DOMAIN repos : Len(repos[n].sources) = 2

\* The data of the file that main wrote.
Output == (CHOOSE i \in DOMAIN json_files : json_files[i].name = args.output)

OutputNamesList ==
  LET data == json_files[Output].data
  IN IF args.detailed THEN [i \in DOMAIN data.repositories |-> data.repositories[i].name]
     ELSE data.items

\* C11: the merged output lists every repository name exactly once and in
\* non-increasing order of stars, in the detailed and in the simple mode; the
\* simple list is the detailed list's names in the same order.
C11_OutputSortedOnce ==
  (mpc = "saved" /\ json_files # <<>>) =>
    LET names == OutputNamesList
        data == json_files[Output].data
    IN /\ Len(names) = Cardinality(DOMAIN repos)
       /\ \A n \in DOMAIN repos : \E i \in DOMAIN names : names[i] = n
       /\ \A i, j \in DOMAIN names : i < j => repos[names[i]].stars >= repos[names[j]].stars
       /\ args.detailed =>
            \A i \in DOMAIN names : data.repositories[i].stars = repos[names[i]].stars
       /\ ~args.detailed =>
            LET det == OutputData([args EXCEPT !.detailed = TRUE], repos).repositories
            IN names = [i \in DOMAIN det |-> det[i].name]

\* A detailed output of two repositories in which the one merged second, with
\* more stars, comes first.
C11_Witness ==
  /\ mpc = "saved"
  /\ json_files # <<>>
  /\ args.detailed
  /\ Len(OutputNamesList) = 2
  /\ repos[OutputNamesList[1]].ins = 2
  /\ repos[OutputNamesList[1]].stars > repos[OutputNamesList[2]].stars

(***************************************************************************)
(* issue-hook/issue_crawler.py: data.                                      *)
(***************************************************************************)
IssueNumbers == 1..MaxIssues
PRNumbers == 1..MaxPR
Branches == {"main", "master", "develop", ""}

\* An issue's 'body' as the API returns it: null, empty, blank or text.
Bodies == {None, Str(<<>>), Str(<<" ", "\n">>), Str(<<" ", "b">>)}

\* The keys _process_single_issue reads with issue[...] to build its result.
IssueKeys == {"title", "html_url", "state", "created_at", "closed_at", "body"}

Issue(n, body) == [number |-> n, body |-> body, keys |-> IssueKeys]

\* An issue whose JSON object lacks the 'title' key.
UntitledIssue(n, body) == [Issue(n, body) EXCEPT !.keys = @ \ {"title"}]

\* _get_all_closed_issues's result: closed issues, each number once, in the
\* order they were fetched.
IssueLists ==
  UNION {{[i \in 1..k |-> Issue(ns[i], bs[i])] :
            ns \in {f \in [1..k -> IssueNumbers] : \A i, j \in 1..k : i # j => f[i] # f[j]},
            bs \in [1..k -> Bodies]} : k \in 1..MaxIssues}

\* What an evidence request answers: a failure, or a set of PR numbers.
NumberOutcomes ==
  {[ok |-> FALSE, prs |-> {}]} \cup {[ok |-> TRUE, prs |-> S] : S \in SUBSET PRNumbers}

\* git log / git show end in the numbers found, or raise after finding some.
GitOutcomes == {[ok |-> o, prs |-> S] : o \in BOOLEAN, S \in SUBSET PRNumbers}

\* GET /issues/{n}/events: a failure, or the number of 'closed' events that
\* carry a commit_id.
EventsOutcomes == {[ok |-> FALSE, commits |-> 0]} \cup {[ok |-> TRUE, commits |-> c] : c \in 0..MaxCommits}

\* GET /pulls/{n}: a failure, or the pull request; 'merged' absent reads as
\* false and 'base' absent as ''.
PullsOutcomes(n) ==
  {[ok |-> FALSE, number |-> n, merged |-> FALSE, base_ref |-> ""]}
  \cup {[ok |-> TRUE, number |-> n, merged |-> TRUE, base_ref |-> b] : b \in Branches}
  \cup {[ok |-> TRUE, number |-> n, merged |-> FALSE, base_ref |-> "main"]}

\* One entry of an issue's call history; ret holds what a pulls request
\* answered, what the git analysis returned and, when traced, what the other
\* adapters were answered.
Call(api, arg, ret) == [api |-> api, arg |-> arg, ret |-> ret]

NewTask ==
  [pc |-> "pending", pr_numbers |-> {}, commits |-> 0, fetched |-> {},
   linked_prs |-> <<>>, result |-> <<>>, verdict |-> "none"]

\* _process_single_issue has returned: its locals are gone, its result (None
\* is <<>>) and the rejection it printed remain.
Returned(result, verdict) ==
  [NewTask EXCEPT !.pc = "done", !.result = result, !.verdict = verdict]

\* _process_single_issue has raised: the exception is what the caller gets.
Raised == [NewTask EXCEPT !.pc = "raised", !.verdict = "error"]

(***************************************************************************)
(* issue-hook/issue_crawler.py: the resolver's functions.                  *)
(***************************************************************************)
\* _get_issue_linked_prs_from_git: the numbers found, also when it raised.
_get_issue_linked_prs_from_git(outcome) == outcome.prs

\* A GET that raised adds nothing to pr_numbers.
NumbersOf(outcome) == IF outcome.ok THEN outcome.prs ELSE {}

\* _find_prs_with_commit: [] on an exception.
_find_prs_with_commit(outcome) == IF outcome.ok THEN outcome.prs ELSE {}

\* _get_pr_info: the PR's dictionary, None (here <<>>) on an exception.
_get_pr_info(outcome) ==
  IF outcome.ok
  THEN <<[number |-> outcome.number, merged |-> outcome.merged,
          base_branch |-> outcome.base_ref]>>
  ELSE <<>>

_check_pr_merged_to_main_any_branch(pr_info) == pr_info.merged

_check_pr_merged_to_main(pr_info) ==
  IF ~pr_info.merged THEN FALSE
  ELSE pr_info.base_branch \in {"main", "master"}

_has_text_description_no_strip(issue) ==
  LET body == issue.body
  IN ~body.none /\ Len(body.text) > 0

_has_text_description(issue) ==
  LET body == issue.body
  IN ~body.none /\ Len(Strip(body.text)) > 0

MergedPrs_unfiltered(linked_prs) == linked_prs

\* merged_prs of _process_single_issue.
MergedPrs(linked_prs) ==
  SelectSeq(linked_prs, LAMBDA pr : _check_pr_merged_to_main(pr))

\* filtered_issue of _process_single_issue.
FilteredIssue(issue, merged_prs) ==
  [number |-> issue.number, body |-> issue.body, linked_prs |-> merged_prs,
   ai_judgment |-> <<>>]

\* list.sort(key=lambda x: x['number']): stable, ascending.
RECURSIVE InsertByNumber(_, _)
InsertByNumber(sorted, x) ==
  IF sorted = <<>> THEN <<x>>
  ELSE IF x.number < Head(sorted).number THEN <<x>> \o sorted
  ELSE <<Head(sorted)>> \o InsertByNumber(Tail(sorted), x)

SortByNumber_unsorted(list) == list

RECURSIVE SortByNumber(_)
SortByNumber(list) ==
  IF list = <<>> THEN <<>>
  ELSE InsertByNumber(SortByNumber(SubSeq(list, 1, Len(list) - 1)), list[Len(list)])

(***************************************************************************)
(* issue-hook/issue_crawler.py: filter_issues.  In local clone mode every  *)
(* issue is submitted to a pool of max_workers threads and the results are *)
(* taken as they complete; in API mode the issues are processed one after  *)
(* the other.                                                              *)
(***************************************************************************)
Running == {i \in DOMAIN task : task[i].pc \notin {"pending", "done", "raised"}}

CanStart_unbounded(i) ==
  /\ task[i].pc = "pending"
  /\ \A j \in 1..(i - 1) : task[j].pc # "pending"

\* The pool takes the queued tasks in submission order while a worker is
\* free; the sequential loop calls the next issue after the previous one's
\* result has been taken.
CanStart(i) ==
  /\ task[i].pc = "pending"
  /\ \A j \in 1..(i - 1) : task[j].pc # "pending"
  /\ IF use_local_clone THEN Cardinality(Running) < max_workers
     ELSE \A j \in 1..(i - 1) : j \in collected

Log(i, entries) == [calls EXCEPT ![i] = @ \o entries]

\* What an adapter's request answered, kept in the call history when traced.
Traced(outcome) == IF trace THEN <<outcome>> ELSE <<>>

\* What the git analysis returned, with its outcome when traced.
GitReturned(outcome) ==
  IF trace THEN <<outcome>> ELSE <<[prs |-> _get_issue_linked_prs_from_git(outcome)]>>

AfterGit_always_api(pr_numbers) == "timeline"

\* "if not self.use_local_clone or not pr_numbers": the API methods, or
\* straight to the details of the numbers found by git.
AfterGit(pr_numbers) ==
  IF ~use_local_clone \/ pr_numbers = {} THEN "timeline" ELSE "fetch"

AfterEvents_always_search == "search"

\* The adapter that follows the closing-events adapter.
AfterEvents == IF ~use_local_clone THEN "search" ELSE "fetch"

\* _process_single_issue up to the linkage lookup: the description check, and
\* the choice of the first adapter in _get_issue_linked_prs.
ProcessStart(i) ==
  /\ ipc = "filter"
  /\ CanStart(i)
  /\ task' = [task EXCEPT ![i] =
       IF ~_has_text_description(issues[i])
       THEN Returned(<<>>, "no_description")
       ELSE [@ EXCEPT !.pc = IF use_local_clone /\ local_repo_path THEN "git"
                             ELSE "timeline"]]
  /\ UNCHANGED <<use_local_clone, local_repo_path, trace, max_workers, issues, calls, collected,
                 filtered_issues, ipc, ai_idx, agent_issues, issue_json,
                 merge_vars, repo_vars, llm_calls, gate_vars, aux_vars>>

\* _get_issue_linked_prs, local clone mode: the git analysis.
GitLog(i) ==
  /\ ipc = "filter"
  /\ task[i].pc = "git"
  /\ \E outcome \in GitOutcomes :
       LET pr_numbers == task[i].pr_numbers \cup _get_issue_linked_prs_from_git(outcome)
       IN /\ task' = [task EXCEPT ![i] =
            [@ EXCEPT !.pr_numbers = pr_numbers,
                      !.pc = AfterGit(pr_numbers)]]
          /\ calls' = Log(i, <<Call("git-log", 0, GitReturned(outcome))>>)
  /\ UNCHANGED <<use_local_clone, local_repo_path, trace, max_workers, issues, collected,
                 filtered_issues, ipc, ai_idx, agent_issues, issue_json,
                 merge_vars, repo_vars, llm_calls, gate_vars, aux_vars>>

\* Method 1: the timeline request.
Timeline(i) ==
  /\ ipc = "filter"
  /\ task[i].pc = "timeline"
  /\ \E outcome \in NumberOutcomes :
       /\ task' = [task EXCEPT ![i] =
            [@ EXCEPT !.pr_numbers = @ \cup NumbersOf(outcome), !.pc = "events"]]
       /\ calls' = Log(i, <<Call("timeline", 0, Traced(outcome))>>)
  /\ UNCHANGED <<use_local_clone, local_repo_path, trace, max_workers, issues, collected,
                 filtered_issues, ipc, ai_idx, agent_issues, issue_json,
                 merge_vars, repo_vars, llm_calls, gate_vars, aux_vars>>

\* Method 2: the events request.
Events(i) ==
  /\ ipc = "filter"
  /\ task[i].pc = "events"
  /\ \E outcome \in EventsOutcomes :
       LET commits == IF outcome.ok THEN outcome.commits ELSE 0
       IN /\ task' = [task EXCEPT ![i] =
               [@ EXCEPT !.commits = commits,
                         !.pc = IF commits > 0 THEN "commit_pulls" ELSE AfterEvents]]
          /\ calls' = Log(i, <<Call("events", 0, Traced(outcome))>>)
  /\ UNCHANGED <<use_local_clone, local_repo_path, trace, max_workers, issues, collected,
                 filtered_issues, ipc, ai_idx, agent_issues, issue_json,
                 merge_vars, repo_vars, llm_calls, gate_vars, aux_vars>>

\* Method 2, per closing commit: the PRs that contain it.
CommitPulls(i) ==
  /\ ipc = "filter"
  /\ task[i].pc = "commit_pulls"
  /\ \E outcome \in NumberOutcomes :
       /\ task' = [task EXCEPT ![i] =
            [@ EXCEPT !.pr_numbers = @ \cup _find_prs_with_commit(outcome),
                      !.commits = @ - 1,
                      !.pc = IF task[i].commits = 1 THEN AfterEvents ELSE "commit_pulls"]]
       /\ calls' = Log(i, <<Call("commit-pulls", 0, Traced(outcome))>>)
  /\ UNCHANGED <<use_local_clone, local_repo_path, trace, max_workers, issues, collected,
                 filtered_issues, ipc, ai_idx, agent_issues, issue_json,
                 merge_vars, repo_vars, llm_calls, gate_vars, aux_vars>>

\* Method 3, API mode only: the delay, then the search request.
Search(i) ==
  /\ ipc = "filter"
  /\ task[i].pc = "search"
  /\ \E outcome \in NumberOutcomes :
       /\ task' = [task EXCEPT ![i] =
            [@ EXCEPT !.pr_numbers = @ \cup NumbersOf(outcome), !.pc = "fetch"]]
       /\ calls' = Log(i, <<Call("sleep", 2, <<>>), Call("search", 0, Traced(outcome))>>)
  /\ UNCHANGED <<use_local_clone, local_repo_path, trace, max_workers, issues, collected,
                 filtered_issues, ipc, ai_idx, agent_issues, issue_json,
                 merge_vars, repo_vars, llm_calls, gate_vars, aux_vars>>

ToFetch_again(i) == task[i].pr_numbers

\* "for pr_num in pr_numbers": the numbers of the set the loop has not reached.
ToFetch(i) == task[i].pr_numbers \ task[i].fetched

\* "for pr_num in pr_numbers": the next number of the set (CPython iterates a
\* set of small integers in ascending order) is fetched.
NextToFetch(i) ==
  CHOOSE n \in ToFetch(i) : \A m \in ToFetch(i) : n <= m

GetPrInfo(i) ==
  /\ ipc = "filter"
  /\ task[i].pc = "fetch"
  /\ ToFetch(i) # {}
  /\ LET pr_num == NextToFetch(i)
     IN \E outcome \in PullsOutcomes(pr_num) :
          /\ task' = [task EXCEPT ![i] =
               [@ EXCEPT !.linked_prs = @ \o _get_pr_info(outcome),
                         !.fetched = @ \cup {pr_num}]]
          /\ calls' = Log(i, <<Call("pulls", pr_num, <<outcome>>)>>)
  /\ UNCHANGED <<use_local_clone, local_repo_path, trace, max_workers, issues, collected,
                 filtered_issues, ipc, ai_idx, agent_issues, issue_json,
                 merge_vars, repo_vars, llm_calls, gate_vars, aux_vars>>

\* _process_single_issue after the linkage lookup: conditions 3 and 4.
Decide(i) ==
  /\ ipc = "filter"
  /\ task[i].pc = "fetch"
  /\ ToFetch(i) = {}
  /\ LET linked_prs == task[i].linked_prs
         merged_prs == MergedPrs(linked_prs)
     IN task' = [task EXCEPT ![i] =
          IF linked_prs = <<>> THEN Returned(<<>>, "no_linked_prs")
          ELSE IF merged_prs = <<>> THEN Returned(<<>>, "not_merged")
          ELSE IF ~(IssueKeys \subseteq issues[i].keys) THEN Raised
          ELSE Returned(<<FilteredIssue(issues[i], merged_prs)>>, "accepted")]
  /\ UNCHANGED <<use_local_clone, local_repo_path, trace, max_workers, issues, calls, collected,
                 filtered_issues, ipc, ai_idx, agent_issues, issue_json,
                 merge_vars, repo_vars, llm_calls, gate_vars, aux_vars>>

\* filter_issues takes a finished issue's result: "if result is not None:
\* filtered_issues.append(result)".
Collect(i) ==
  /\ ipc = "filter"
  /\ task[i].pc = "done"
  /\ i \notin collected
  /\ collected' = collected \cup {i}
  /\ filtered_issues' = filtered_issues \o task[i].result
  /\ UNCHANGED <<use_local_clone, local_repo_path, trace, max_workers, issues, task, calls,
                 ipc, ai_idx, agent_issues, issue_json,
                 merge_vars, repo_vars, llm_calls, gate_vars, aux_vars>>

Caught_never(local) == FALSE

\* Whether filter_issues catches what _process_single_issue raised: the
\* concurrent branch has future.result() in a try block, the sequential loop
\* calls _process_single_issue outside any.
Caught(local) == local

\* filter_issues meets the exception of issue i: the concurrent branch prints
\* the error and goes on to the next completed future; in the sequential loop
\* the exception leaves filter_issues.
CollectError(i) ==
  /\ ipc = "filter"
  /\ task[i].pc = "raised"
  /\ i \notin collected
  /\ IF Caught(use_local_clone)
     THEN collected' = collected \cup {i} /\ ipc' = ipc
     ELSE collected' = collected /\ ipc' = "raised"
  /\ UNCHANGED <<use_local_clone, local_repo_path, trace, max_workers, issues, task, calls,
                 filtered_issues, ai_idx, agent_issues, issue_json,
                 merge_vars, repo_vars, llm_calls, gate_vars, aux_vars>>

FilterDone_early == TRUE

\* The as_completed loop, or the sequential loop, has ended.
FilterDone == collected = DOMAIN issues

\* filter_issues returns: the concurrent branch sorts by issue number.
FilterReturn ==
  /\ ipc = "filter"
  /\ FilterDone
  /\ filtered_issues' = IF use_local_clone THEN SortByNumber(filtered_issues)
                        ELSE filtered_issues
  /\ ipc' = "filtered"
  /\ UNCHANGED <<use_local_clone, local_repo_path, trace, max_workers, issues, task, calls, collected,
                 ai_idx, agent_issues, issue_json,
                 merge_vars, repo_vars, llm_calls, gate_vars, aux_vars>>

\* run after _clone_repo and _get_all_closed_issues: filter_issues is entered
\* with a non-empty list; in local clone mode the clone exists.
FilterStart ==
  /\ use_local_clone \in BOOLEAN
  /\ local_repo_path = use_local_clone
  /\ max_workers \in (IF use_local_clone THEN 1..MaxWorkers ELSE {MaxWorkers})
  /\ issues \in IssueLists
  /\ task = [i \in DOMAIN issues |-> NewTask]
  /\ calls = [i \in DOMAIN issues |-> <<>>]
  /\ collected = {}
  /\ filtered_issues = <<>>
  /\ ipc = "filter"
  /\ ai_idx = 1
  /\ agent_issues = <<>>
  /\ issue_json = <<>>
  /\ MergeIdle
  /\ RepoIdle
  /\ GateIdle
  /\ AuxIdle
  /\ llm_calls = <<>>

FilterInit == FilterStart /\ trace = FALSE

FilterNext ==
  \/ \E i \in DOMAIN issues :
       \/ ProcessStart(i)
       \/ GitLog(i)
       \/ Timeline(i)
       \/ Events(i)
       \/ CommitPulls(i)
       \/ Search(i)
       \/ GetPrInfo(i)
       \/ Decide(i)
       \/ Collect(i)
  \/ FilterReturn

SpecFilter == FilterInit /\ [][FilterNext]_vars

\* filter_issues over a single issue: one run of _process_single_issue, by the
\* pool or by the sequential loop.
ResolveInit == FilterInit /\ Len(issues) = 1

SpecResolve == ResolveInit /\ [][FilterNext]_vars

\* The same single issue, with the adapters' answers kept in the history.
EvidenceInit == FilterStart /\ trace = TRUE /\ Len(issues) = 1

SpecEvidence == EvidenceInit /\ [][FilterNext]_vars

\* filter_issues over issues with a text body, some of them without a title.
UntitledLists ==
  UNION {{[i \in 1..k |-> IF i \in U THEN UntitledIssue(ns[i], Str(<<" ", "b">>))
                          ELSE Issue(ns[i], Str(<<" ", "b">>))] :
            ns \in {f \in [1..k -> IssueNumbers] : \A i, j \in 1..k : i # j => f[i] # f[j]},
            U \in SUBSET (1..k)} : k \in 1..MaxIssues}

FilterErrorsInit ==
  /\ use_local_clone \in BOOLEAN
  /\ local_repo_path = use_local_clone
  /\ max_workers = MaxWorkers
  /\ trace = FALSE
  /\ issues \in UntitledLists
  /\ task = [i \in DOMAIN issues |-> NewTask]
  /\ calls = [i \in DOMAIN issues |-> <<>>]
  /\ collected = {}
  /\ filtered_issues = <<>>
  /\ ipc = "filter"
  /\ ai_idx = 1
  /\ agent_issues = <<>>
  /\ issue_json = <<>>
  /\ MergeIdle
  /\ RepoIdle
  /\ GateIdle
  /\ AuxIdle
  /\ llm_calls = <<>>

FilterErrorsNext ==
  \/ FilterNext
  \/ \E i \in DOMAIN issues : CollectError(i)

SpecFilterErrors == FilterErrorsInit /\ [][FilterErrorsNext]_vars

(***************************************************************************)
(* issue-hook/issue_crawler.py: the classification of the survivors        *)
(* (batch_ai_judgment) and the rest of run.                                *)
(***************************************************************************)
Yes == <<"y", "e", "s">>
No == <<"n", "o">>
JudgmentFailed ==
  <<"J", "u", "d", "g", "m", "e", "n", "t", " ", "f", "a", "i", "l", "e", "d">>

\* The part of a response that the verdict looks for "no" in: response_lower[:10].
NoWindow == 10

\* _is_agent_issue without its except clause: the exception leaves the function.
_is_agent_issue_no_except(issue, outcome) ==
  LET response == simple_chat(outcome)
  IN IF response.none
     THEN [raised |-> TRUE, is_agent |-> FALSE, response |-> JudgmentFailed]
     ELSE LET response_lower == Lower(response.text)
          IN [raised |-> FALSE,
              is_agent |-> Contains(response_lower, Yes)
                           /\ ~Contains(Slice(response_lower, NoWindow), No),
              response |-> response.text]

\* _is_agent_issue: (is_agent, response).  response.lower() raises when the
\* completion had no content; the except clause turns that into (False,
\* "Judgment failed: ...").
_is_agent_issue(issue, outcome) ==
  LET response == simple_chat(outcome)
  IN IF response.none
     THEN [raised |-> FALSE, is_agent |-> FALSE, response |-> JudgmentFailed]
     ELSE LET response_lower == Lower(response.text)
          IN [raised |-> FALSE,
              is_agent |-> Contains(response_lower, Yes)
                           /\ ~Contains(Slice(response_lower, NoWindow), No),
              response |-> response.text]

\* batch_ai_judgment's loop body for the issue at ai_idx; an exception that
\* leaves _is_agent_issue leaves batch_ai_judgment and run.
Judge(outcomes) ==
  /\ ipc = "filtered"
  /\ filtered_issues # <<>>
  /\ ai_idx <= Len(filtered_issues)
  /\ \E outcome \in outcomes :
       LET j == _is_agent_issue(filtered_issues[ai_idx], outcome)
           issue == [filtered_issues[ai_idx] EXCEPT
                       !.ai_judgment = <<[is_agent_issue |-> j.is_agent,
                                          response |-> j.response]>>]
       IN /\ llm_calls' = Append(llm_calls, [item |-> ai_idx, outcome |-> outcome])
          /\ IF j.raised
             THEN /\ ipc' = "raised"
                  /\ UNCHANGED <<filtered_issues, agent_issues, ai_idx, gate_vars>>
             ELSE /\ filtered_issues' = [filtered_issues EXCEPT ![ai_idx] = issue]
                  /\ agent_issues' = IF j.is_agent THEN Append(agent_issues, issue)
                                     ELSE agent_issues
                  /\ ai_idx' = ai_idx + 1
                  /\ ipc' = ipc
  /\ UNCHANGED <<use_local_clone, local_repo_path, trace, max_workers, issues, task, calls, collected,
                 issue_json, merge_vars, repo_vars, gate_vars, aux_vars>>

AiJudgment == Judge(LLMOutcomes)

\* save_results: issue.json.
IssueJson(list) == <<[total_count |-> Len(list), issues |-> list]>>

\* run: "if not filtered_issues: save_results([])".
SaveEmpty ==
  /\ ipc = "filtered"
  /\ filtered_issues = <<>>
  /\ issue_json' = IssueJson(<<>>)
  /\ ipc' = "saved"
  /\ UNCHANGED <<use_local_clone, local_repo_path, trace, max_workers, issues, task, calls, collected,
                 filtered_issues, ai_idx, agent_issues,
                 merge_vars, repo_vars, llm_calls, gate_vars, aux_vars>>

\* run: batch_ai_judgment has returned agent_issues; save_results(agent_issues).
SaveResults ==
  /\ ipc = "filtered"
  /\ filtered_issues # <<>>
  /\ ai_idx > Len(filtered_issues)
  /\ issue_json' = IssueJson(agent_issues)
  /\ ipc' = "saved"
  /\ UNCHANGED <<use_local_clone, local_repo_path, trace, max_workers, issues, task, calls, collected,
                 filtered_issues, ai_idx, agent_issues,
                 merge_vars, repo_vars, llm_calls, gate_vars, aux_vars>>

\* A survivor of filter_issues.
SurvivorPr == [number |-> 1, merged |-> TRUE, base_branch |-> "main"]
Survivor(n) == FilteredIssue(Issue(n, Str(<<" ", "b">>)), <<SurvivorPr>>)

IsSortedByNumber(list) ==
  \A i \in 1..(Len(list) - 1) : list[i].number < list[i + 1].number

\* What filter_issues can return: issues that passed, each once; sorted by
\* number in local clone mode.
SurvivorLists(local) ==
  {l \in UNION {{[i \in 1..k |-> Survivor(ns[i])] :
                   ns \in {f \in [1..k -> IssueNumbers] :
                             \A i, j \in 1..k : i # j => f[i] # f[j]}} :
                k \in 0..MaxIssues} :
     local => IsSortedByNumber(l)}

\* The issue program when filter_issues has returned.
IssueGateInit ==
  /\ use_local_clone \in BOOLEAN
  /\ local_repo_path = use_local_clone
  /\ max_workers = MaxWorkers
  /\ trace = FALSE
  /\ issues = <<>>
  /\ task = <<>>
  /\ calls = <<>>
  /\ collected = {}
  /\ filtered_issues \in SurvivorLists(use_local_clone)
  /\ ipc = "filtered"
  /\ ai_idx = 1
  /\ agent_issues = <<>>
  /\ issue_json = <<>>
  /\ MergeIdle
  /\ RepoIdle
  /\ GateIdle
  /\ AuxIdle
  /\ llm_calls = <<>>

IssueGateNext == AiJudgment \/ SaveEmpty \/ SaveResults

\* run from filter_issues on: the filter, then batch_ai_judgment over what it
\* returned, then save_results.
\* The completions the judgments of a run are answered with: a yes, a no, a
\* failed call.
RunOutcomes ==
  {[kind |-> "text", text |-> <<"Y", "e", "s">>],
   [kind |-> "text", text |-> <<"N", "o">>],
   [kind |-> "error", text |-> <<>>]}

RunNext == FilterNext \/ Judge(RunOutcomes) \/ SaveEmpty \/ SaveResults

RunInit == FilterInit /\ max_workers = MaxWorkers


(***************************************************************************)
(* repo-hook/github_archive/agent_filter.py: filter_repos from step 3's    *)
(* result on.                                                              *)
(***************************************************************************)
YES == <<"Y", "E", "S">>

\* config.py: AGENT_KEYWORDS.
AGENT_KEYWORDS ==
  <<
   <<"a", "g", "e", "n", "t">>,
   <<"a", "g", "e", "n", "t", "s">>,
   <<"a", "u", "t", "o", "n", "o", "m", "o", "u", "s", " ", "a", "g", "e", "n", "t">>,
   <<"a", "i", " ", "a", "g", "e", "n", "t">>,
   <<"l", "l", "m", " ", "a", "g", "e", "n", "t">>,
   <<"l", "l", "m">>,
   <<"l", "a", "r", "g", "e", " ", "l", "a", "n", "g", "u", "a", "g", "e", " ", "m", "o", "d", "e", "l">>,
   <<"l", "a", "n", "g", "c", "h", "a", "i", "n">>,
   <<"a", "u", "t", "o", "g", "e", "n">>,
   <<"o", "p", "e", "n", "a", "i">>,
   <<"c", "h", "a", "t", "g", "p", "t">>,
   <<"g", "p", "t", "-", "4">>,
   <<"g", "p", "t", "-", "3", ".", "5">>,
   <<"c", "l", "a", "u", "d", "e">>,
   <<"a", "n", "t", "h", "r", "o", "p", "i", "c">>,
   <<"g", "e", "m", "i", "n", "i">>,
   <<"p", "a", "l", "m">>,
   <<"l", "l", "a", "m", "a">>,
   <<"a", "s", "s", "i", "s", "t", "a", "n", "t">>,
   <<"c", "h", "a", "t", "b", "o", "t">>,
   <<"a", "i", " ", "a", "s", "s", "i", "s", "t", "a", "n", "t">>,
   <<"v", "i", "r", "t", "u", "a", "l", " ", "a", "s", "s", "i", "s", "t", "a", "n", "t">>,
   <<"a", "u", "t", "o", "n", "o", "m", "o", "u", "s">>,
   <<"c", "o", "g", "n", "i", "t", "i", "v", "e", " ", "a", "r", "c", "h", "i", "t", "e", "c", "t", "u", "r", "e">>,
   <<"r", "e", "a", "s", "o", "n", "i", "n", "g", " ", "a", "g", "e", "n", "t">>,
   <<"t", "o", "o", "l", " ", "c", "a", "l", "l", "i", "n", "g">>,
   <<"t", "o", "o", "l", " ", "u", "s", "e">>,
   <<"f", "u", "n", "c", "t", "i", "o", "n", " ", "c", "a", "l", "l", "i", "n", "g">>,
   <<"f", "u", "n", "c", "t", "i", "o", "n", " ", "c", "a", "l", "l">>,
   <<"t", "o", "o", "l", " ", "i", "n", "v", "o", "c", "a", "t", "i", "o", "n">>,
   <<"a", "c", "t", "i", "o", "n", " ", "e", "x", "e", "c", "u", "t", "i", "o", "n">>,
   <<"t", "a", "s", "k", " ", "d", "e", "c", "o", "m", "p", "o", "s", "i", "t", "i", "o", "n">>,
   <<"t", "a", "s", "k", " ", "p", "l", "a", "n", "n", "i", "n", "g">>,
   <<"m", "e", "m", "o", "r", "y">>,
   <<"m", "e", "m", "o", "r", "y", " ", "s", "t", "o", "r", "e">>,
   <<"m", "e", "m", "o", "r", "y", " ", "m", "a", "n", "a", "g", "e", "m", "e", "n", "t">>,
   <<"v", "e", "c", "t", "o", "r", " ", "s", "t", "o", "r", "e">>,
   <<"v", "e", "c", "t", "o", "r", " ", "d", "a", "t", "a", "b", "a", "s", "e">>,
   <<"e", "m", "b", "e", "d", "d", "i", "n", "g">>,
   <<"e", "m", "b", "e", "d", "d", "i", "n", "g", "s">>,
   <<"s", "e", "m", "a", "n", "t", "i", "c", " ", "s", "e", "a", "r", "c", "h">>,
   <<"c", "o", "n", "t", "e", "x", "t", " ", "m", "a", "n", "a", "g", "e", "m", "e", "n", "t">>,
   <<"c", "o", "n", "v", "e", "r", "s", "a", "t", "i", "o", "n", " ", "h", "i", "s", "t", "o", "r", "y">>,
   <<"r", "a", "g">>,
   <<"r", "e", "t", "r", "i", "e", "v", "a", "l", " ", "a", "u", "g", "m", "e", "n", "t", "e", "d">>,
   <<"r", "e", "t", "r", "i", "e", "v", "a", "l", "-", "a", "u", "g", "m", "e", "n", "t", "e", "d">>,
   <<"d", "o", "c", "u", "m", "e", "n", "t", " ", "r", "e", "t", "r", "i", "e", "v", "a", "l">>,
   <<"k", "n", "o", "w", "l", "e", "d", "g", "e", " ", "b", "a", "s", "e">>,
   <<"k", "n", "o", "w", "l", "e", "d", "g", "e", " ", "r", "e", "t", "r", "i", "e", "v", "a", "l">>,
   <<"p", "l", "a", "n", "n", "e", "r">>,
   <<"p", "l", "a", "n", "n", "i", "n", "g">>,
   <<"t", "a", "s", "k", " ", "p", "l", "a", "n", "n", "e", "r">>,
   <<"o", "r", "c", "h", "e", "s", "t", "r", "a", "t", "i", "o", "n">>,
   <<"w", "o", "r", "k", "f", "l", "o", "w">>,
   <<"m", "u", "l", "t", "i", "-", "a", "g", "e", "n", "t">>,
   <<"m", "u", "l", "t", "i", " ", "a", "g", "e", "n", "t">>,
   <<"a", "g", "e", "n", "t", " ", "o", "r", "c", "h", "e", "s", "t", "r", "a", "t", "i", "o", "n">>,
   <<"a", "g", "e", "n", "t", " ", "f", "r", "a", "m", "e", "w", "o", "r", "k">>,
   <<"a", "g", "e", "n", "t", "i", "c">>,
   <<"p", "r", "o", "m", "p", "t">>,
   <<"p", "r", "o", "m", "p", "t", "i", "n", "g">>,
   <<"p", "r", "o", "m", "p", "t", " ", "e", "n", "g", "i", "n", "e", "e", "r", "i", "n", "g">>,
   <<"p", "r", "o", "m", "p", "t", " ", "t", "e", "m", "p", "l", "a", "t", "e">>,
   <<"c", "h", "a", "i", "n", " ", "o", "f", " ", "t", "h", "o", "u", "g", "h", "t">>,
   <<"r", "e", "a", "c", "t", " ", "p", "a", "t", "t", "e", "r", "n">>,
   <<"f", "e", "w", "-", "s", "h", "o", "t">>,
   <<"c", "r", "e", "w", "a", "i">>,
   <<"s", "m", "o", "l", "a", "g", "e", "n", "t", "s">>,
   <<"t", "r", "a", "n", "s", "f", "o", "r", "m", "e", "r", "s", " ", "a", "g", "e", "n", "t">>,
   <<"h", "a", "y", "s", "t", "a", "c", "k">>,
   <<"s", "e", "m", "a", "n", "t", "i", "c", " ", "k", "e", "r", "n", "e", "l">>,
   <<"l", "l", "a", "m", "a", "i", "n", "d", "e", "x">>,
   <<"g", "p", "t", "-", "e", "n", "g", "i", "n", "e", "e", "r">>,
   <<"a", "u", "t", "o", "g", "p", "t">>,
   <<"b", "a", "b", "y", "a", "g", "i">>,
   <<"s", "u", "p", "e", "r", "a", "g", "i">>,
   <<"a", "g", "e", "n", "t", "g", "p", "t">>,
   <<"M", "e", "t", "a", "G", "P", "T">>
  >>

\* AgentRepoFilter.__init__: "self.keywords = [kw.lower() for kw in AGENT_KEYWORDS]".
keywords == [k \in DOMAIN AGENT_KEYWORDS |-> Lower(AGENT_KEYWORDS[k])]

keyword_filter_case_sensitive(repo_name, repo_description, repo_readme) ==
  LET text == repo_name \o <<" ">> \o repo_description \o <<" ">> \o repo_readme
  IN \E k \in DOMAIN keywords : Contains(text, keywords[k])

\* keyword_filter: some keyword is in the lower-cased "name description readme".
keyword_filter(repo_name, repo_description, repo_readme) ==
  LET text == Lower(repo_name \o <<" ">> \o repo_description \o <<" ">> \o repo_readme)
  IN \E k \in DOMAIN keywords : Contains(text, keywords[k])

\* ai_filter that looks for YES anywhere in the response.
ai_filter_contains(ai, repo_name, outcome) ==
  IF ~ai THEN [raised |-> FALSE, value |-> TRUE]
  ELSE LET response == simple_chat(outcome)
       IN IF response.none THEN [raised |-> FALSE, value |-> FALSE]
          ELSE [raised |-> FALSE, value |-> Contains(Upper(Strip(response.text)), YES)]

\* ai_filter: simple_chat(...).strip().upper() raises when the completion had
\* no content; the except clause answers False.
ai_filter(ai, repo_name, outcome) ==
  IF ~ai THEN [raised |-> FALSE, value |-> TRUE]
  ELSE LET response == simple_chat(outcome)
       IN IF response.none THEN [raised |-> FALSE, value |-> FALSE]
          ELSE [raised |-> FALSE,
                value |-> StrStartsWith(Upper(Strip(response.text)), YES)]

\* "if not self.use_ai: return [repo['name'] for repo in keyword_passed]"
ReturnKeywordPassed ==
  /\ rpc = "keyword_done"
  /\ ~use_ai
  /\ agent_repos' = [i \in DOMAIN keyword_passed |-> StrEntry(keyword_passed[i].name)]
  /\ rpc' = "returned"
  /\ UNCHANGED <<use_ai, keyword_passed, ai_i, ai_passed, repos_info, min_stars,
                 batch_results, star_passed, kw, readme_calls,
                 merge_vars, issue_vars, llm_calls, gate_vars, aux_vars>>

\* Step 4's loop body for the repository at ai_i.
Classify(outcomes) ==
  /\ rpc = "keyword_done"
  /\ use_ai
  /\ ai_i <= Len(keyword_passed)
  /\ readme_calls' = Append(readme_calls, [name |-> keyword_passed[ai_i].name, step |-> 4])
  /\ \E outcome \in outcomes :
       LET repo_info == keyword_passed[ai_i]
           result == ai_filter(use_ai, repo_info.name, outcome)
       IN /\ llm_calls' = Append(llm_calls, [item |-> ai_i, outcome |-> outcome])
          /\ IF result.raised
             THEN /\ rpc' = "raised"
                  /\ UNCHANGED <<ai_passed, ai_i, gate_vars>>
             ELSE /\ ai_passed' = IF result.value
                                  THEN Append(ai_passed, ObjEntry(repo_info.name, repo_info.stars))
                                  ELSE ai_passed
                  /\ ai_i' = ai_i + 1
                  /\ rpc' = rpc
  /\ UNCHANGED <<use_ai, keyword_passed, agent_repos, repos_info, min_stars,
                 batch_results, star_passed, kw,
                 merge_vars, issue_vars, gate_vars, aux_vars>>

AiFilter == Classify(LLMOutcomes)

\* "return ai_passed"
ReturnAiPassed ==
  /\ rpc = "keyword_done"
  /\ use_ai
  /\ ai_i > Len(keyword_passed)
  /\ agent_repos' = ai_passed
  /\ rpc' = "returned"
  /\ UNCHANGED <<use_ai, keyword_passed, ai_i, ai_passed, repos_info, min_stars,
                 batch_results, star_passed, kw, readme_calls,
                 merge_vars, issue_vars, llm_calls, gate_vars, aux_vars>>

\* Step 3's result: star_passed entries, each repository once.
KeywordPassedLists ==
  {[i \in DOMAIN l |-> [name |-> l[i], description |-> <<>>, stars |-> st[i]]] :
     l \in NameLists, st \in [1..Cardinality(RepoNames) -> ObjStars]}

RepoGateInit ==
  /\ use_ai \in BOOLEAN
  /\ keyword_passed \in KeywordPassedLists
  /\ ai_i = 1
  /\ ai_passed = <<>>
  /\ agent_repos = <<>>
  /\ rpc = "keyword_done"
  /\ repos_info = <<>>
  /\ min_stars = 0
  /\ batch_results = <<>>
  /\ star_passed = <<>>
  /\ kw = <<>>
  /\ readme_calls = <<>>
  /\ MergeIdle
  /\ IssueIdle
  /\ GateIdle
  /\ AuxIdle
  /\ llm_calls = <<>>

RepoGateNext == ReturnKeywordPassed \/ AiFilter \/ ReturnAiPassed

(***************************************************************************)
(* repo-hook/github_archive/agent_filter.py: filter_repos, steps 1 to 3.   *)
(***************************************************************************)
MaxRepos == 2

\* filter_repos's default min_stars.
DefaultMinStars == 10

\* 'foo/bar', 'x/llm', 'facebook/react'
PipelineNames == {<<"f", "o", "o", "/", "b", "a", "r">>, <<"x", "/", "l", "l", "m">>, <<"f", "a", "c", "e", "b", "o", "o", "k", "/", "r", "e", "a", "c", "t">>}

\* '', 'An LLM agent framework', 'JavaScript library'
Descriptions == {<<>>, <<"A", "n", " ", "L", "L", "M", " ", "a", "g", "e", "n", "t", " ", "f", "r", "a", "m", "e", "w", "o", "r", "k">>, <<"J", "a", "v", "a", "S", "c", "r", "i", "p", "t", " ", "l", "i", "b", "r", "a", "r", "y">>}

\* get_repo_readme: None, or the README's text.
Readmes == {None, Str(<<"u", "s", "e", "s", " ", "l", "a", "n", "g", "c", "h", "a", "i", "n">>), Str(<<"a", " ", "p", "a", "r", "s", "e", "r">>)}

PipelineStars == {5, 10}

\* get_repos_info_batch's value for a name: None, or its info.
NoInfo == [found |-> FALSE, stars |-> 0, description |-> <<>>]
Infos ==
  {NoInfo} \cup {[found |-> TRUE, stars |-> st, description |-> d] :
                   st \in PipelineStars, d \in Descriptions}

CandidateLists ==
  {l \in SeqsUpTo(PipelineNames, MaxRepos) :
     l # <<>> /\ \A i, j \in DOMAIN l : i # j => l[i] # l[j]}

StarPassed_any(github_info, min) == github_info.found

\* "github_info and github_info.get('stars', 0) >= min_stars"
StarPassed(github_info, min) == github_info.found /\ github_info.stars >= min

\* Step 1: the batch fetch.
BatchFetch ==
  /\ rpc = "start"
  /\ \E fetched \in [Range(repos_info) -> Infos] : batch_results' = fetched
  /\ rpc' = "fetched"
  /\ UNCHANGED <<use_ai, keyword_passed, ai_i, ai_passed, agent_repos, repos_info,
                 min_stars, star_passed, kw, readme_calls,
                 merge_vars, issue_vars, llm_calls, gate_vars, aux_vars>>

\* Step 2's list: the candidates with enough stars, in the order given.
StarPassedList ==
  LET passed == SelectSeq(repos_info, LAMBDA n : StarPassed(batch_results[n], min_stars))
  IN [i \in DOMAIN passed |->
        [name |-> passed[i],
         description |-> batch_results[passed[i]].description,
         stars |-> batch_results[passed[i]].stars]]

\* Step 2: the star filter; "if len(star_passed) == 0: return []"; else the
\* pool of step 3 gets one check_repo_keywords per entry.
StarFilter ==
  /\ rpc = "fetched"
  /\ star_passed' = StarPassedList
  /\ kw' = [i \in DOMAIN StarPassedList |-> [pc |-> "pending", passed |-> FALSE]]
  /\ rpc' = IF StarPassedList = <<>> THEN "returned" ELSE "keyword"
  /\ UNCHANGED <<use_ai, keyword_passed, ai_i, ai_passed, agent_repos, repos_info,
                 min_stars, batch_results, readme_calls,
                 merge_vars, issue_vars, llm_calls, gate_vars, aux_vars>>

NeedsReadme_always(quick) == TRUE

\* check_repo_keywords goes on to the README: the quick check did not return.
NeedsReadme(quick) == ~quick

\* check_repo_keywords: the quick check with name and description.
KwCheck(i) ==
  /\ rpc = "keyword"
  /\ kw[i].pc = "pending"
  /\ kw' = [kw EXCEPT ![i] =
       LET quick == keyword_filter(star_passed[i].name, star_passed[i].description, <<>>)
       IN IF NeedsReadme(quick)
          THEN [pc |-> "readme", passed |-> FALSE]
          ELSE [pc |-> "done", passed |-> TRUE]]
  /\ UNCHANGED <<rpc, use_ai, keyword_passed, ai_i, ai_passed, agent_repos, repos_info,
                 min_stars, batch_results, star_passed, readme_calls,
                 merge_vars, issue_vars, llm_calls, gate_vars, aux_vars>>

\* check_repo_keywords: the README is fetched and the check repeated with it.
KwReadme(i) ==
  /\ rpc = "keyword"
  /\ kw[i].pc = "readme"
  /\ readme_calls' = Append(readme_calls, [name |-> star_passed[i].name, step |-> 3])
  /\ \E readme_content \in Readmes :
       kw' = [kw EXCEPT ![i] =
         [pc |-> "done",
          passed |-> /\ ~readme_content.none
                     /\ readme_content.text # <<>>
                     /\ keyword_filter(star_passed[i].name, star_passed[i].description,
                                       readme_content.text)]]
  /\ UNCHANGED <<rpc, use_ai, keyword_passed, ai_i, ai_passed, agent_repos, repos_info,
                 min_stars, batch_results, star_passed,
                 merge_vars, issue_vars, llm_calls, gate_vars, aux_vars>>

\* The as_completed loop of step 3 takes a finished check.
KwCollect(i) ==
  /\ rpc = "keyword"
  /\ kw[i].pc = "done"
  /\ kw' = [kw EXCEPT ![i].pc = "collected"]
  /\ keyword_passed' = IF kw[i].passed THEN Append(keyword_passed, star_passed[i])
                       ELSE keyword_passed
  /\ UNCHANGED <<rpc, use_ai, ai_i, ai_passed, agent_repos, repos_info,
                 min_stars, batch_results, star_passed, readme_calls,
                 merge_vars, issue_vars, llm_calls, gate_vars, aux_vars>>

\* Step 3 has ended: every check has been taken.
KeywordDone ==
  /\ rpc = "keyword"
  /\ \A i \in DOMAIN kw : kw[i].pc = "collected"
  /\ rpc' = "keyword_done"
  /\ UNCHANGED <<use_ai, keyword_passed, ai_i, ai_passed, agent_repos, repos_info,
                 min_stars, batch_results, star_passed, kw, readme_calls,
                 merge_vars, issue_vars, llm_calls, gate_vars, aux_vars>>

ReposInit ==
  /\ use_ai \in BOOLEAN
  /\ repos_info \in CandidateLists
  /\ min_stars = DefaultMinStars
  /\ rpc = "start"
  /\ batch_results = <<>>
  /\ star_passed = <<>>
  /\ kw = <<>>
  /\ readme_calls = <<>>
  /\ keyword_passed = <<>>
  /\ ai_i = 1
  /\ ai_passed = <<>>
  /\ agent_repos = <<>>
  /\ MergeIdle
  /\ IssueIdle
  /\ GateIdle
  /\ AuxIdle
  /\ llm_calls = <<>>

ReposNext ==
  \/ BatchFetch
  \/ StarFilter
  \/ \E i \in DOMAIN kw :
       \/ KwCheck(i)
       \/ KwReadme(i)
       \/ KwCollect(i)
  \/ KeywordDone
  \/ ReturnKeywordPassed
  \/ Classify(RunOutcomes)
  \/ ReturnAiPassed

SpecRepos == ReposInit /\ [][ReposNext]_vars

\* The two pipelines, each in its own program: filter stage, then
\* classification stage.
StagesInit == RunInit \/ ReposInit

StagesNext == RunNext \/ ReposNext

SpecStages == StagesInit /\ [][StagesNext]_vars

(***************************************************************************)
(* The two classification gates, each in its own program.                  *)
(***************************************************************************)
GatesInit == IssueGateInit \/ RepoGateInit

GatesNext == IssueGateNext \/ RepoGateNext

SpecGates == GatesInit /\ [][GatesNext]_vars

(***************************************************************************)
(* Claims about the issue resolver.                                        *)
(***************************************************************************)
\* A body that is missing, empty or made of whitespace only.
EmptyBody(issue) ==
  issue.body.none \/ \A k \in DOMAIN issue.body.text : IsSpace(issue.body.text[k])

\* The pull requests that a pulls request made for issue i has answered with.
FetchedFor(i) ==
  {c.ret[1] : c \in {d \in Range(calls[i]) : d.api = "pulls" /\ d.ret[1].ok}}

\* Those of them that are merged into main or master.
QualifyingFor(i) ==
  {o \in FetchedFor(i) : o.merged = TRUE /\ o.base_ref \in {"main", "master"}}

InFiltered(n) == \E k \in DOMAIN filtered_issues : filtered_issues[k].number = n

\* C1: an issue whose body is missing, empty or whitespace-only is rejected
\* ("no description") without a single git-log, timeline, events, commit-to-PR,
\* search or pulls call ever being made for it, in the concurrent and in the
\* sequential mode; it never reaches the filtered list.
C1_EmptyBodyShortCircuits ==
  \A i \in DOMAIN issues :
    EmptyBody(issues[i]) =>
      /\ calls[i] = <<>>
      /\ task[i].pc \in {"pending", "done"}
      /\ task[i].pc = "done" => task[i].result = <<>> /\ task[i].verdict = "no_description"
      /\ ~InFiltered(issues[i].number)

\* Concurrent mode: a whitespace-only issue has been rejected and its result
\* taken, while requests were made for the other issue.
C1_Witness ==
  /\ use_local_clone
  /\ \E i, j \in DOMAIN issues :
       /\ issues[i].body = Str(<<" ", "\n">>)
       /\ task[i].pc = "done" /\ i \in collected
       /\ Len(calls[j]) >= 2

\* C2: an issue with a non-empty body is accepted if and only if at least one
\* pull request whose detail was fetched is merged with base main or master;
\* the accepted issue's linked_prs are exactly those pull requests, each once;
\* with none of them the issue is rejected and stays out of the filtered list.
C2_AcceptIffMergedToMain ==
  \A i \in DOMAIN issues :
    (task[i].pc = "done" /\ ~EmptyBody(issues[i])) =>
      LET Q == QualifyingFor(i)
      IN /\ task[i].verdict = "accepted" <=> Q # {}
         /\ Q = {} => task[i].result = <<>>
         /\ Q # {} =>
              /\ Len(task[i].result) = 1
              /\ task[i].result[1].number = issues[i].number
              /\ LET payload == task[i].result[1].linked_prs
                 IN /\ Len(payload) = Cardinality(Q)
                    /\ {[ok |-> TRUE, number |-> pr.number, merged |-> pr.merged,
                         base_ref |-> pr.base_branch] : pr \in Range(payload)} = Q
         /\ i \in collected => (InFiltered(issues[i].number) <=> Q # {})

\* An issue is accepted on two fetched pull requests of which one qualifies.
C2_Witness ==
  \E i \in DOMAIN issues :
    /\ task[i].verdict = "accepted"
    /\ Cardinality(FetchedFor(i)) = 2
    /\ Len(task[i].result[1].linked_prs) = 1
    /\ InFiltered(issues[i].number)

\* C3: _check_pr_merged_to_main answers true for a pull request record if and
\* only if merged is true and base_branch is exactly "main" or "master"; a
\* record merged into develop, into any other branch or without a base is
\* carried by no accepted issue.
C3_MergedToMainOnly ==
  /\ \A i \in DOMAIN task : \A k \in DOMAIN task[i].linked_prs :
       LET pr == task[i].linked_prs[k]
       IN _check_pr_merged_to_main(pr) <=>
            (pr.merged = TRUE /\ (pr.base_branch = "main" \/ pr.base_branch = "master"))
  /\ \A i \in DOMAIN task : \A r \in Range(task[i].result) : \A pr \in Range(r.linked_prs) :
       pr.merged = TRUE /\ (pr.base_branch = "main" \/ pr.base_branch = "master")
  /\ \A i \in DOMAIN task :
       (task[i].pc = "done" /\ task[i].verdict = "accepted") =>
          \E o \in FetchedFor(i) : o.merged = TRUE /\ o.base_ref \notin {"develop", ""}

\* An issue whose fetched pull requests were merged into develop and into no
\* known base has been rejected.
C3_Witness ==
  \E i \in DOMAIN issues :
    /\ task[i].verdict = "not_merged"
    /\ FetchedFor(i) = {[ok |-> TRUE, number |-> 1, merged |-> TRUE, base_ref |-> "develop"],
                        [ok |-> TRUE, number |-> 2, merged |-> TRUE, base_ref |-> ""]}

(***************************************************************************)
(* Claims about the classification gates.                                  *)
(***************************************************************************)
\* The response begins with the token Yes, whatever its case.
BeginsWithYes(outcome) ==
  /\ outcome.kind = "text"
  /\ Len(outcome.text) >= 3
  /\ UpperChar(outcome.text[1]) = "Y"
  /\ UpperChar(outcome.text[2]) = "E"
  /\ UpperChar(outcome.text[3]) = "S"

\* The response, leading whitespace skipped and upper-cased, begins with YES.
StrippedBeginsWithYES(outcome) ==
  /\ outcome.kind = "text"
  /\ \E j \in 1..(Len(outcome.text) - 2) :
       /\ \A m \in 1..(j - 1) : IsSpace(outcome.text[m])
       /\ UpperChar(outcome.text[j]) = "Y"
       /\ UpperChar(outcome.text[j + 1]) = "E"
       /\ UpperChar(outcome.text[j + 2]) = "S"

\* The classification call failed: it raised, or it answered nothing.
FailedCall(outcome) ==
  outcome.kind \in {"error", "none"} \/ (outcome.kind = "text" /\ outcome.text = <<>>)

\* The issue classified by the k-th call got a negative verdict and is not
\* among the accepted issues.
IssueRejected(k) ==
  LET issue == filtered_issues[llm_calls[k].item]
  IN /\ issue.ai_judgment # <<>>
     /\ issue.ai_judgment[1].is_agent_issue = FALSE
     /\ \A a \in DOMAIN agent_issues : agent_issues[a].number # issue.number

\* The issue classified by the k-th call got a positive verdict and is among
\* the accepted issues.
IssueAccepted(k) ==
  LET issue == filtered_issues[llm_calls[k].item]
  IN /\ issue.ai_judgment # <<>>
     /\ issue.ai_judgment[1].is_agent_issue = TRUE
     /\ \E a \in DOMAIN agent_issues : agent_issues[a] = issue

\* The repository classified by the k-th call is among those that passed.
RepoPassed(k) ==
  \E a \in DOMAIN ai_passed : ai_passed[a].name = keyword_passed[llm_calls[k].item].name

\* C4: in the issue gate every response that does not begin with Yes
\* (whatever its case), the empty one, "No ..." and "Maybe ..." included, gives
\* a negative verdict and keeps the issue out of the accepted issues.
C4_NonYesIsRejected ==
  ipc # "idle" =>
    \A k \in DOMAIN llm_calls : ~BeginsWithYes(llm_calls[k].outcome) => IssueRejected(k)

\* C5: in the issue gate every response that begins with Yes is accepted,
\* whatever follows the token: the issue is among the accepted issues with
\* ai_judgment.is_agent_issue = true.
C5_YesIsAccepted ==
  ipc # "idle" =>
    \A k \in DOMAIN llm_calls : BeginsWithYes(llm_calls[k].outcome) => IssueAccepted(k)

\* C6: in the repository gate with AI enabled a repository passes ai_filter if
\* and only if the response, stripped of whitespace and upper-cased, begins
\* with YES; every other response keeps it out.
C6_AiFilterIffYes ==
  (rpc # "idle" /\ use_ai) =>
    \A k \in DOMAIN llm_calls : RepoPassed(k) <=> StrippedBeginsWithYES(llm_calls[k].outcome)

\* The gate has returned: "<newline>YES<newline>" let the first repository
\* pass, "Maybe yes" kept the second out.
C6_Witness ==
  /\ rpc = "returned"
  /\ use_ai
  /\ Len(llm_calls) = 2
  /\ llm_calls[1].outcome.text = <<"\n", "Y", "E", "S", "\n">>
  /\ llm_calls[2].outcome.text = <<"M", "a", "y", "b", "e", " ", "y", "e", "s">>
  /\ Len(agent_repos) = 1
  /\ agent_repos[1].name = keyword_passed[1].name

\* C7: a classification call that raises or answers nothing is a negative
\* verdict for that one item in both gates: no gate raises, the item is not
\* accepted, and when the gate is through every item has been classified.
C7_FailureIsNegativeVerdict ==
  /\ ipc # "raised"
  /\ rpc # "raised"
  /\ \A k \in DOMAIN llm_calls :
       FailedCall(llm_calls[k].outcome) =>
         IF ipc # "idle" THEN IssueRejected(k) ELSE ~RepoPassed(k)
  /\ ipc = "saved" =>
       /\ \A i \in DOMAIN filtered_issues : filtered_issues[i].ai_judgment # <<>>
       /\ Len(llm_calls) = Len(filtered_issues)
  /\ (rpc = "returned" /\ use_ai) => Len(llm_calls) = Len(keyword_passed)

\* The first issue's call raised, the second issue was classified and accepted,
\* and the result was saved.
C7_Witness ==
  /\ ipc = "saved"
  /\ Len(llm_calls) = 2
  /\ llm_calls[1].outcome.kind = "error"
  /\ IssueRejected(1)
  /\ IssueAccepted(2)
  /\ issue_json[1].total_count = 1

(***************************************************************************)
(* repo-hook: the request gate, _make_request of GitHubAPI                 *)
(* (github_archive/github_api.py) and of AwesomeRepoSearcher               *)
(* (github/awesome_search.py).  One HTTP attempt is answered by a          *)
(* response, by an HTTP error status or by another exception (a transport  *)
(* error, a body that is not JSON).                                        *)
(***************************************************************************)
Gates == {"GitHubAPI", "AwesomeRepoSearcher"}
Urls == {"u1", "u2"}

Answers ==
  {[kind |-> "ok", code |-> 200], [kind |-> "error", code |-> 0]}
  \cup {[kind |-> "http_error", code |-> c] : c \in {403, 404, 422, 500}}

GitHubAPI_make_request_retry_all(answer) ==
  IF answer.kind = "ok" THEN "data"
  ELSE IF answer.kind = "http_error" THEN "retry"
  ELSE "none"

\* GitHubAPI._make_request, one attempt: the data, None, or the cooldown and
\* the recursive call.
GitHubAPI_make_request(answer) ==
  IF answer.kind = "ok" THEN "data"
  ELSE IF answer.kind = "http_error"
       THEN IF answer.code = 404 THEN "none"
            ELSE IF answer.code = 403 THEN "retry"
            ELSE "none"
  ELSE "none"

\* AwesomeRepoSearcher._make_request, one attempt.
AwesomeRepoSearcher_make_request(answer) ==
  IF answer.kind = "ok" THEN "data"
  ELSE IF answer.kind = "http_error"
       THEN IF answer.code = 403 THEN "retry"
            ELSE IF answer.code = 422 THEN "none"
            ELSE "none"
  ELSE "none"

Attempt(g, answer) ==
  IF g = "GitHubAPI" THEN GitHubAPI_make_request(answer)
  ELSE AwesomeRepoSearcher_make_request(answer)

\* A history counter stops at MaxAttempts.
Counted(n) == IF n < MaxAttempts THEN n + 1 ELSE n

\* A caller (get_repo_readme, get_repo_info, search_awesome_repos) calls
\* _make_request(u).
GateCall(u) ==
  /\ gpc = "idle"
  /\ gate \in Gates
  /\ Len(done_calls) < MaxCalls
  /\ url' = u
  /\ gpc' = "request"
  /\ attempts' = 0
  /\ sleeps' = 0
  /\ statuses' = <<>>
  /\ UNCHANGED <<gate, done_calls, request_count, merge_vars, issue_vars, repo_vars, llm_calls, aux_vars>>

\* urlopen and what follows it: the call returns, or it goes to its cooldown.
GateAttempt ==
  /\ gpc = "request"
  /\ \E answer \in Answers :
       LET step == Attempt(gate, answer)
           n == Counted(attempts)
           st == IF Len(statuses) < MaxAttempts THEN Append(statuses, answer) ELSE statuses
       IN IF step = "retry"
          THEN /\ gpc' = "cooldown"
               /\ attempts' = n
               /\ statuses' = st
               /\ UNCHANGED <<sleeps, done_calls, request_count>>
          ELSE /\ gpc' = "idle"
               /\ done_calls' = Append(done_calls,
                    [url |-> url, attempts |-> n, sleeps |-> sleeps, statuses |-> st,
                     last |-> answer, ret |-> step])
               /\ request_count' = IF gate = "GitHubAPI" /\ step = "data"
                                   THEN request_count + 1 ELSE request_count
               /\ attempts' = 0
               /\ sleeps' = 0
               /\ statuses' = <<>>
  /\ UNCHANGED <<gate, url, merge_vars, issue_vars, repo_vars, llm_calls, aux_vars>>

\* time.sleep(60), then "return self._make_request(url)".
GateCooldown ==
  /\ gpc = "cooldown"
  /\ sleeps' = Counted(sleeps)
  /\ gpc' = "request"
  /\ UNCHANGED <<gate, url, attempts, statuses, done_calls, request_count,
                 merge_vars, issue_vars, repo_vars, llm_calls, aux_vars>>

RequestGateInit ==
  /\ gate \in Gates
  /\ gpc = "idle"
  /\ url = "none"
  /\ attempts = 0
  /\ sleeps = 0
  /\ statuses = <<>>
  /\ done_calls = <<>>
  /\ request_count = 0
  /\ MergeIdle
  /\ IssueIdle
  /\ RepoIdle
  /\ AuxIdle
  /\ llm_calls = <<>>

RequestGateNext == (\E u \in Urls : GateCall(u)) \/ GateAttempt \/ GateCooldown

SpecRequestGate == RequestGateInit /\ [][RequestGateNext]_vars

\* A call that is running goes on: every attempt is answered (urlopen has a
\* timeout) and every sleep ends.
SpecRequestGateLive ==
  SpecRequestGate /\ WF_vars(GateAttempt) /\ WF_vars(GateCooldown)

(***************************************************************************)
(* Claims about the request gate.                                          *)
(***************************************************************************)
\* C12: a single call of _make_request sleeps once after an HTTP 403 and
\* retries once: it performs at most two HTTP attempts for its URL.
C12_AtMostTwoAttempts ==
  /\ attempts <= 2
  /\ sleeps <= 1
  /\ \A k \in DOMAIN done_calls : done_calls[k].attempts <= 2 /\ done_calls[k].sleeps <= 1

\* C13: every call of the request gate returns, also when the server answers
\* HTTP 403 to every attempt.
C13_CallReturns == (gpc = "request") ~> (gpc = "idle")

IsError(answer) ==
  answer.kind = "error" \/ (answer.kind = "http_error" /\ answer.code # 403)

\* C14: HTTP 404, 422, any other status but 403 and any transport error are
\* not retried: the attempt so answered is the call's last one, no cooldown
\* follows it, the caller receives None; a call whose first answer is such an
\* error has made exactly one attempt and has not slept.
C14_ErrorsAreNotRetried ==
  /\ \A k \in DOMAIN statuses : ~IsError(statuses[k])
  /\ \A k \in DOMAIN done_calls :
       LET c == done_calls[k]
       IN /\ \A j \in DOMAIN c.statuses : IsError(c.statuses[j]) => j = Len(c.statuses)
          /\ IsError(c.last) => c.ret = "none"
          /\ IsError(c.statuses[1]) => c.attempts = 1 /\ c.sleeps = 0 /\ c.ret = "none"

\* Two calls of GitHubAPI's gate have returned None, one on 404 and one on 422,
\* each after one attempt and no sleep.
C14_Witness ==
  /\ gate = "GitHubAPI"
  /\ Len(done_calls) = 2
  /\ done_calls[1].statuses = <<[kind |-> "http_error", code |-> 404]>>
  /\ done_calls[2].statuses = <<[kind |-> "http_error", code |-> 422]>>
  /\ done_calls[2].attempts = 1
  /\ done_calls[2].ret = "none"
  /\ request_count = 0


(***************************************************************************)
(* Claims about the evidence adapters of _get_issue_linked_prs.            *)
(***************************************************************************)
\* The adapters that answer with PR numbers, and all the adapters.
NumberAdapters == {"git-log", "timeline", "commit-pulls", "search"}
Adapters == NumberAdapters \cup {"events"}

\* The traced adapter calls of issue i, as positions of its call history.
AdapterCalls(i) ==
  {k \in DOMAIN calls[i] : trace /\ calls[i][k].api \in Adapters}

\* The apis issue i has called so far.
Called(i) == {calls[i][k].api : k \in DOMAIN calls[i]}

\* The numbers whose details issue i has requested.
Requested(i) == {calls[i][k].arg : k \in {j \in DOMAIN calls[i] : calls[i][j].api = "pulls"}}

\* Issue i is past the union of the adapters.
PastUnion(i) == task[i].pc = "fetch" \/ (task[i].pc = "done" /\ Called(i) # {})

\* C15: a failing adapter contributes no PR number; the other enabled adapters
\* are still run (the API ones when git found nothing or the mode is API, the
\* search in API mode), and the numbers of those that succeeded are in the
\* union, hence requested by the time the issue is decided.
C15_AdaptersIsolated ==
  \A i \in DOMAIN issues :
    /\ \A k \in AdapterCalls(i) :
         LET c == calls[i][k]
         IN (c.api \in NumberAdapters /\ ~c.ret[1].ok) => c.ret[1].prs = {}
    /\ PastUnion(i) =>
         /\ (~use_local_clone) => {"timeline", "events", "search"} \subseteq Called(i)
         /\ (use_local_clone /\ "timeline" \in Called(i)) => "events" \in Called(i)
    /\ task[i].pc = "done" =>
         \A k \in AdapterCalls(i) :
           LET c == calls[i][k]
           IN (c.api \in NumberAdapters /\ c.ret[1].ok) => c.ret[1].prs \subseteq Requested(i)


\* The git analysis of issue i found PR numbers (local clone mode).
GitFound(i) ==
  /\ use_local_clone
  /\ calls[i] # <<>>
  /\ calls[i][1].api = "git-log"
  /\ calls[i][1].ret[1].prs # {}

\* C16: in local clone mode, when the git analysis finds PR numbers, the issue
\* makes no timeline, events, commit-pulls or search request, and the numbers
\* whose details are requested are exactly the ones git found.
C16_GitEvidenceStopsUnion ==
  \A i \in DOMAIN issues :
    GitFound(i) =>
      LET git_prs == calls[i][1].ret[1].prs
      IN /\ Called(i) \subseteq {"git-log", "pulls"}
         /\ Requested(i) \subseteq git_prs
         /\ task[i].pc = "fetch" => task[i].pr_numbers = git_prs
         /\ task[i].pc = "done" => Requested(i) = git_prs

C16_Witness ==
  \E i \in DOMAIN issues :
    /\ GitFound(i)
    /\ task[i].pc = "done"
    /\ Requested(i) = PRNumbers
    /\ Len(calls[i]) = 1 + Cardinality(PRNumbers)


(***************************************************************************)
(* Claims about filter_issues.                                             *)
(***************************************************************************)
\* C17: what filter_issues returns is in ascending order of issue number,
\* whatever the order of the list it was given, in both modes.
C17_SurvivorsSortedByNumber ==
  ipc = "filtered" => IsSortedByNumber(filtered_issues)


\* The results of the issues that passed, whatever order they completed in.
Accepted == {task[i].result[1] : i \in {j \in DOMAIN task : task[j].result # <<>>}}

\* Every submitted issue has run to its end (returned or raised).
AllCompleted == \A i \in DOMAIN task : task[i].pc \in {"done", "raised"}

\* C18: in the concurrent branch, what filter_issues returns is fixed by the
\* issues' own results: every submitted issue has completed, the list holds
\* exactly the accepted issues, each once, in ascending order of number, so no
\* interleaving or completion order can change it.
C18_ConcurrentResultIsDetermined ==
  (use_local_clone /\ ipc = "filtered") =>
    /\ AllCompleted
    /\ Range(filtered_issues) = Accepted
    /\ Len(filtered_issues) = Cardinality(Accepted)
    /\ IsSortedByNumber(filtered_issues)

C18_Witness ==
  /\ use_local_clone
  /\ ipc = "filtered"
  /\ Len(issues) = 2
  /\ issues[1].number > issues[2].number
  /\ Len(filtered_issues) = 2
  /\ Len(calls[2]) < Len(calls[1])


\* The issues whose processing raised.
Failed == {i \in DOMAIN task : task[i].pc = "raised"}

\* C19: in the concurrent branch an exception raised by one issue's processing
\* costs that issue only: filter_issues is not left by the exception, the
\* pipeline can always go on while an issue is not completed, nothing is
\* returned before every issue has completed, and the list returned holds the
\* issues that passed, the failed one not among them.
C19_ConcurrentErrorIsContained ==
  use_local_clone =>
    /\ ipc # "raised"
    /\ (ipc = "filter" /\ Failed # {}) => ENABLED FilterErrorsNext
    /\ ipc = "filtered" =>
         /\ AllCompleted
         /\ Range(filtered_issues) = Accepted
         /\ \A i \in Failed : ~InFiltered(issues[i].number)
         /\ \A i \in DOMAIN task \ Failed : task[i].pc = "done"

C19_Witness ==
  /\ use_local_clone
  /\ ipc = "filtered"
  /\ Len(issues) = 2
  /\ task[1].pc = "raised"
  /\ task[2].verdict = "accepted"
  /\ filtered_issues = task[2].result


\* C20: in the sequential branch an exception raised by one issue's processing
\* is caught for that issue: filter_issues is not left by the exception, and
\* when it returns every issue has been processed and the list holds the
\* issues that passed.
C20_SequentialErrorIsCaught ==
  (~use_local_clone) =>
    /\ ipc # "raised"
    /\ ipc = "filtered" => (AllCompleted /\ Range(filtered_issues) = Accepted)


\* C21: the mode is the caller's use_local_clone.  Without it one issue at a
\* time is being resolved, and issue k+1 is not started before issue k has
\* finished; with it no more than max_workers issues are being resolved.
C21_ModeBoundsConcurrency ==
  IF use_local_clone
  THEN Cardinality(Running) <= max_workers
  ELSE /\ Cardinality(Running) <= 1
       /\ \A i, j \in DOMAIN task :
            (i < j /\ task[j].pc # "pending") => task[i].pc \in {"done", "raised"}

\* The pool is full while an issue waits.
C21_Witness ==
  /\ use_local_clone
  /\ Cardinality(Running) = max_workers
  /\ \E i \in DOMAIN task : task[i].pc = "pending"


(***************************************************************************)
(* Claims about filter_repos.                                              *)
(***************************************************************************)
\* The names of a list of repository entries.
NamesOf(list) == {list[k].name : k \in DOMAIN list}

\* The candidates whose fetched star count is below min_stars.
BelowMinStars ==
  {n \in DOMAIN batch_results :
     batch_results[n].found /\ batch_results[n].stars < min_stars}

\* The names a classification call was made for.
Classified == {keyword_passed[llm_calls[k].item].name : k \in DOMAIN llm_calls}

\* C23: a candidate with fewer stars than min_stars goes no further than the
\* star filter: it is in no later list and not in the result, and neither a
\* README request nor a classification call is made for it, whatever its
\* name and description.
C23_BelowMinStarsIsRejected ==
  \A n \in BelowMinStars :
    /\ n \notin NamesOf(star_passed) \cup NamesOf(keyword_passed)
                  \cup NamesOf(ai_passed) \cup NamesOf(agent_repos)
    /\ n \notin NamesOf(readme_calls)
    /\ n \notin Classified

C23_Witness ==
  /\ rpc = "returned"
  /\ use_ai
  /\ agent_repos # <<>>
  /\ readme_calls # <<>>
  /\ \E n \in BelowMinStars : keyword_filter(n, batch_results[n].description, <<>>)


(***************************************************************************)
(* Claims about the order of the stages.                                   *)
(***************************************************************************)
\* The position of the entry named (or numbered) x in a list.
PosByNumber(list, x) == CHOOSE k \in DOMAIN list : list[k].number = x
PosByName(list, x) == CHOOSE k \in DOMAIN list : list[k].name = x

\* The numbers of the issues that passed filter_issues.
AcceptedNumbers == {r.number : r \in Accepted}

\* The names that passed the keyword step.
KeywordPassedNames == {star_passed[i].name : i \in {j \in DOMAIN kw : kw[j].passed}}

\* C22, issues: a judgment is made only after filter_issues has taken the
\* result of every issue; the k-th judgment is about the k-th survivor, made
\* when the k-1 before it have returned; agent_issues lists survivors in the
\* order of the survivors list.
IssueStages ==
  /\ llm_calls # <<>> =>
       /\ ipc \in {"filtered", "saved", "raised"}
       /\ AllCompleted
       /\ collected = DOMAIN issues
  /\ Len(llm_calls) = ai_idx - 1
  /\ \A k \in DOMAIN llm_calls :
       /\ llm_calls[k].item = k
       /\ k \in DOMAIN filtered_issues
       /\ filtered_issues[k].number \in AcceptedNumbers
  /\ \A a \in DOMAIN agent_issues : InFiltered(agent_issues[a].number)
  /\ \A a, b \in DOMAIN agent_issues :
       a < b => PosByNumber(filtered_issues, agent_issues[a].number)
                  < PosByNumber(filtered_issues, agent_issues[b].number)

\* C22, repositories: the same for filter_repos, whose survivors are the
\* repositories that passed the keyword step.
RepoStages ==
  /\ llm_calls # <<>> =>
       /\ rpc \in {"keyword_done", "returned", "raised"}
       /\ \A i \in DOMAIN kw : kw[i].pc = "collected"
  /\ Len(llm_calls) = ai_i - 1
  /\ \A k \in DOMAIN llm_calls :
       /\ llm_calls[k].item = k
       /\ k \in DOMAIN keyword_passed
       /\ keyword_passed[k].name \in KeywordPassedNames
  /\ NamesOf(ai_passed) \subseteq NamesOf(keyword_passed)
  /\ \A a, b \in DOMAIN ai_passed :
       a < b => PosByName(keyword_passed, ai_passed[a].name)
                  < PosByName(keyword_passed, ai_passed[b].name)

C22_ClassificationIsALaterSequentialStage ==
  /\ ipc # "idle" => IssueStages
  /\ rpc # "idle" => RepoStages

C22_Witness ==
  /\ ipc = "saved"
  /\ Len(issues) = 2
  /\ Len(filtered_issues) = 2
  /\ Len(llm_calls) = 2
  /\ Len(agent_issues) = 1
  /\ agent_issues[1].number = filtered_issues[2].number


(***************************************************************************)
(* keyword_filter called on its own.                                       *)
(***************************************************************************)
\* test_basic.py: test_cases.
test_cases ==
  <<
   [repo_name |-> <<"l", "a", "n", "g", "c", "h", "a", "i", "n", "-", "a", "i", "/", "l", "a", "n", "g", "c", "h", "a", "i", "n">>,
    repo_description |-> <<"L", "a", "n", "g", "C", "h", "a", "i", "n", " ", "f", "r", "a", "m", "e", "w", "o", "r", "k">>,
    expected |-> TRUE],
   [repo_name |-> <<"m", "i", "c", "r", "o", "s", "o", "f", "t", "/", "a", "u", "t", "o", "g", "e", "n">>,
    repo_description |-> <<"M", "u", "l", "t", "i", "-", "a", "g", "e", "n", "t", " ", "f", "r", "a", "m", "e", "w", "o", "r", "k">>,
    expected |-> TRUE],
   [repo_name |-> <<"o", "p", "e", "n", "a", "i", "/", "o", "p", "e", "n", "a", "i", "-", "p", "y", "t", "h", "o", "n">>,
    repo_description |-> <<"O", "p", "e", "n", "A", "I", " ", "P", "y", "t", "h", "o", "n", " ", "S", "D", "K">>,
    expected |-> TRUE],
   [repo_name |-> <<"f", "a", "c", "e", "b", "o", "o", "k", "/", "r", "e", "a", "c", "t">>,
    repo_description |-> <<"J", "a", "v", "a", "S", "c", "r", "i", "p", "t", " ", "l", "i", "b", "r", "a", "r", "y">>,
    expected |-> FALSE],
   [repo_name |-> <<"t", "o", "r", "v", "a", "l", "d", "s", "/", "l", "i", "n", "u", "x">>,
    repo_description |-> <<"L", "i", "n", "u", "x", " ", "k", "e", "r", "n", "e", "l">>,
    expected |-> FALSE]
  >>

\* Repository names, descriptions and README texts the filter is called with:
\* those of test_cases, and others in mixed case.
KeywordNames ==
  {<<"l", "a", "n", "g", "c", "h", "a", "i", "n", "-", "a", "i", "/", "l", "a", "n", "g", "c", "h", "a", "i", "n">>,
   <<"m", "i", "c", "r", "o", "s", "o", "f", "t", "/", "a", "u", "t", "o", "g", "e", "n">>,
   <<"o", "p", "e", "n", "a", "i", "/", "o", "p", "e", "n", "a", "i", "-", "p", "y", "t", "h", "o", "n">>,
   <<"f", "a", "c", "e", "b", "o", "o", "k", "/", "r", "e", "a", "c", "t">>,
   <<"t", "o", "r", "v", "a", "l", "d", "s", "/", "l", "i", "n", "u", "x">>,
   <<"F", "o", "o", "/", "B", "a", "r">>}
KeywordDescriptions ==
  {<<"L", "a", "n", "g", "C", "h", "a", "i", "n", " ", "f", "r", "a", "m", "e", "w", "o", "r", "k">>,
   <<"M", "u", "l", "t", "i", "-", "a", "g", "e", "n", "t", " ", "f", "r", "a", "m", "e", "w", "o", "r", "k">>,
   <<"O", "p", "e", "n", "A", "I", " ", "P", "y", "t", "h", "o", "n", " ", "S", "D", "K">>,
   <<"J", "a", "v", "a", "S", "c", "r", "i", "p", "t", " ", "l", "i", "b", "r", "a", "r", "y">>,
   <<"L", "i", "n", "u", "x", " ", "k", "e", "r", "n", "e", "l">>,
   <<"A", "n", " ", "L", "L", "M", " ", "A", "g", "e", "n", "t">>,
   <<>>}
KeywordReadmes ==
  {<<>>,
   <<"U", "s", "e", "s", " ", "L", "a", "n", "g", "C", "h", "a", "i", "n">>,
   <<"a", " ", "p", "a", "r", "s", "e", "r">>}

KeywordFilterInit ==
  /\ fn_args \in [repo_name : KeywordNames, repo_description : KeywordDescriptions,
                  repo_readme : KeywordReadmes]
  /\ fn_ret = <<>>
  /\ fn_pc = "called"
  /\ BatchIdle
  /\ PrintIdle
  /\ PageIdle
  /\ ApiIdle
  /\ MergeIdle
  /\ IssueIdle
  /\ RepoIdle
  /\ GateIdle
  /\ llm_calls = <<>>

KeywordFilterCall ==
  /\ fn_pc = "called"
  /\ fn_ret' = <<keyword_filter(fn_args.repo_name, fn_args.repo_description,
                                fn_args.repo_readme)>>
  /\ fn_pc' = "returned"
  /\ UNCHANGED <<fn_args, batch_vars, print_vars, page_vars, api_vars, merge_vars, issue_vars, repo_vars, gate_vars, llm_calls>>

SpecKeywordFilter == KeywordFilterInit /\ [][KeywordFilterCall]_vars

\* The keyword is at position i of the text, letter case apart.
MatchesAt(text, keyword, i) ==
  /\ i + Len(keyword) - 1 <= Len(text)
  /\ \A j \in DOMAIN keyword : LowerChar(text[i + j - 1]) = LowerChar(keyword[j])

\* C24: keyword_filter answers True exactly when some keyword of the list
\* occurs, letter case apart, in "name description readme"; the documented
\* cases get their documented answers.
C24_KeywordFilterIsSubstringMatch ==
  fn_pc = "returned" =>
    LET text == fn_args.repo_name \o <<" ">> \o fn_args.repo_description
                  \o <<" ">> \o fn_args.repo_readme
    IN /\ fn_ret[1] = (\E k \in DOMAIN AGENT_KEYWORDS : \E i \in DOMAIN text :
                         MatchesAt(text, AGENT_KEYWORDS[k], i))
       /\ \A t \in DOMAIN test_cases :
            (/\ fn_args.repo_name = test_cases[t].repo_name
             /\ fn_args.repo_description = test_cases[t].repo_description
             /\ fn_args.repo_readme = <<>>) => fn_ret[1] = test_cases[t].expected

\* A hit in the README only, and only when letter case is ignored.
C24_Witness ==
  /\ fn_pc = "returned"
  /\ fn_ret[1] = TRUE
  /\ fn_args.repo_name = <<"F", "o", "o", "/", "B", "a", "r">>
  /\ fn_args.repo_description = <<"J", "a", "v", "a", "S", "c", "r", "i", "p", "t", " ", "l", "i", "b", "r", "a", "r", "y">>
  /\ fn_args.repo_readme = <<"U", "s", "e", "s", " ", "L", "a", "n", "g", "C", "h", "a", "i", "n">>


(***************************************************************************)
(* github_archive/github_api.py: GitHubAPI.get_repos_info_batch.           *)
(* With a token the names go to GraphQL in batches, one aliased sub-query  *)
(* per name; without one each name is a get_repo_info call submitted to a  *)
(* thread pool.  get_repo_info reads and writes self.cache.                *)
(***************************************************************************)
MaxNames == 2
DefaultBatchSize == 50
DefaultMaxWorkers == 10

BatchNames == {<<"a", "/", "b">>, <<"c", "/", "d">>, <<"n", "o", "s">>}

\* The name lists asked for: no name twice.
BatchLists ==
  {l \in SeqsUpTo(BatchNames, MaxNames) : l # <<>> /\ Cardinality(Range(l)) = Len(l)}

\* The record built from a repository's data, the same by either API.
FoundInfo == [found |-> TRUE, stars |-> DefaultMinStars, description |-> <<>>]

\* d[k] = v
Put(d, k, v) == [x \in DOMAIN d \cup {k} |-> IF x = k THEN v ELSE d[x]]

\* batch = repo_names[i:i + batch_size]
BatchAt(i) ==
  SubSeq(repo_names, i, IF i + batch_size - 1 < Len(repo_names)
                        THEN i + batch_size - 1 ELSE Len(repo_names))

\* aliases: the positions of the batch whose name has a '/', in order.
AliasIdx(batch) == {idx \in DOMAIN batch : Contains(batch[idx], <<"/">>)}

RECURSIVE AliasValues(_, _)
AliasValues(batch, idx) ==
  IF idx > Len(batch) THEN <<>>
  ELSE (IF idx \in AliasIdx(batch) THEN <<batch[idx]>> ELSE <<>>)
         \o AliasValues(batch, idx + 1)

\* What the GraphQL request can come back with: an exception (urlopen,
\* json.loads), a body without data, or a body with data in which each alias is
\* an object, null or missing; errors of type NOT_FOUND name aliases, whose
\* field is then null.
GraphqlResponses(names) ==
  {[kind |-> "raise", not_found |-> {}, answer |-> [n \in names |-> "absent"]]}
  \cup {[kind |-> "nodata", not_found |-> nf, answer |-> [n \in names |-> "absent"]] :
          nf \in SUBSET names}
  \cup {r \in [kind : {"data"}, not_found : SUBSET names,
               answer : [names -> {"info", "null", "absent"}]] :
          /\ \A n \in r.not_found : r.answer[n] = "null"
          /\ \E n \in names : r.answer[n] # "absent"}

NeedsFallback_on_errors(resp) == resp.kind # "data" \/ resp.not_found # {}

\* The else branch of "if 'data' in data and data['data']".
NeedsFallback(resp) == resp.kind # "data"

\* results after "for repo_name in not_found_repos: results[repo_name] = None".
RECURSIVE MarkNotFound(_, _)
MarkNotFound(res, names) ==
  IF names = {} THEN res
  ELSE LET n == CHOOSE x \in names : TRUE
       IN MarkNotFound(Put(res, n, NoInfo), names \ {n})

\* results after the loop over aliases.items() of a body with data.
RECURSIVE FromData(_, _, _)
FromData(res, values, answer) ==
  IF values = <<>> THEN res
  ELSE FromData(Put(res, Head(values),
                    IF answer[Head(values)] = "info" THEN FoundInfo ELSE NoInfo),
                Tail(values), answer)

BatchInit ==
  /\ token \in BOOLEAN
  /\ repo_names \in BatchLists
  /\ batch_size \in (IF token THEN {1, DefaultBatchSize} ELSE {DefaultBatchSize})
  /\ results = <<>>
  /\ cache \in {<<>>, Put(<<>>, <<"a", "/", "b">>, FoundInfo)}
  /\ bpc = "called"
  /\ bi = 1
  /\ responses = <<>>
  /\ rest_queue = <<>>
  /\ fallbacks = <<>>
  /\ wpc = [w \in DOMAIN repo_names |-> "queued"]
  /\ wret = [w \in DOMAIN repo_names |-> NoInfo]
  /\ FnIdle
  /\ PrintIdle
  /\ PageIdle
  /\ ApiIdle
  /\ MergeIdle
  /\ IssueIdle
  /\ RepoIdle
  /\ GateIdle
  /\ llm_calls = <<>>

\* get_repos_info_batch: "if self.token".
BatchDispatch ==
  /\ bpc = "called"
  /\ bpc' = IF token THEN "graphql" ELSE "pool"
  /\ UNCHANGED <<token, repo_names, batch_size, results, cache, bi, responses,
                 rest_queue, fallbacks, wpc, wret>>
  /\ UNCHANGED <<fn_vars, print_vars, page_vars, api_vars, merge_vars, issue_vars, repo_vars, gate_vars, llm_calls>>

\* One iteration of the loop over the batches, up to the one-by-one lookups.
GraphqlBatch ==
  /\ bpc = "graphql"
  /\ rest_queue = <<>>
  /\ bi <= Len(repo_names)
  /\ LET batch == BatchAt(bi)
         values == AliasValues(batch, 1)
     IN IF values = <<>>
        THEN UNCHANGED <<results, responses, rest_queue>>
        ELSE \E resp \in GraphqlResponses(Range(values)) :
               /\ responses' = Append(responses, [batch |-> batch, resp |-> resp])
               /\ IF resp.kind = "raise"
                  THEN /\ rest_queue' = batch
                       /\ UNCHANGED results
                  ELSE IF NeedsFallback(resp)
                  THEN /\ rest_queue' = values
                       /\ results' = MarkNotFound(results, resp.not_found)
                  ELSE /\ rest_queue' = <<>>
                       /\ results' = FromData(MarkNotFound(results, resp.not_found),
                                              values, resp.answer)
  /\ bi' = bi + batch_size
  /\ UNCHANGED <<token, repo_names, batch_size, cache, bpc, fallbacks, wpc, wret>>
  /\ UNCHANGED <<fn_vars, print_vars, page_vars, api_vars, merge_vars, issue_vars, repo_vars, gate_vars, llm_calls>>

\* results[repo_name] = self.get_repo_info(repo_name), in the main thread.
RestFallback ==
  /\ bpc = "graphql"
  /\ rest_queue # <<>>
  /\ LET repo_name == Head(rest_queue)
     IN \E data \in {NoInfo, FoundInfo} :
          LET ret == IF repo_name \in DOMAIN cache THEN cache[repo_name] ELSE data
          IN /\ cache' = IF repo_name \notin DOMAIN cache /\ ret.found
                         THEN Put(cache, repo_name, ret) ELSE cache
             /\ results' = Put(results, repo_name, ret)
             /\ fallbacks' = Append(fallbacks, [name |-> repo_name, ret |-> ret])
  /\ rest_queue' = Tail(rest_queue)
  /\ UNCHANGED <<token, repo_names, batch_size, bpc, bi, responses, wpc, wret>>
  /\ UNCHANGED <<fn_vars, print_vars, page_vars, api_vars, merge_vars, issue_vars, repo_vars, gate_vars, llm_calls>>

GraphqlReturn ==
  /\ bpc = "graphql"
  /\ rest_queue = <<>>
  /\ bi > Len(repo_names)
  /\ bpc' = "done"
  /\ UNCHANGED <<token, repo_names, batch_size, results, cache, bi, responses,
                 rest_queue, fallbacks, wpc, wret>>
  /\ UNCHANGED <<fn_vars, print_vars, page_vars, api_vars, merge_vars, issue_vars, repo_vars, gate_vars, llm_calls>>

\* The calls a pool thread is running.
InPool ==
  {w \in DOMAIN wpc : wpc[w] \in {"check", "hit", "request", "load", "add", "store"}}

\* A pool thread takes the call: it is at "if repo_name in self.cache".
PoolStart(w) ==
  /\ bpc = "pool"
  /\ wpc[w] = "queued"
  /\ Cardinality(InPool) < DefaultMaxWorkers
  /\ wpc' = [wpc EXCEPT ![w] = "check"]
  /\ UNCHANGED <<token, repo_names, batch_size, results, cache, bpc, bi, responses,
                 rest_queue, fallbacks, wret>>
  /\ UNCHANGED <<fn_vars, print_vars, page_vars, api_vars, merge_vars, issue_vars, repo_vars, gate_vars, llm_calls>>

\* "if repo_name in self.cache": on to the return of the cached value, or to
\* the request.
CacheCheck(w) ==
  /\ bpc = "pool"
  /\ wpc[w] = "check"
  /\ wpc' = [wpc EXCEPT ![w] = IF repo_names[w] \in DOMAIN cache THEN "hit" ELSE "request"]
  /\ UNCHANGED <<token, repo_names, batch_size, results, cache, bpc, bi, responses,
                 rest_queue, fallbacks, wret>>
  /\ UNCHANGED <<fn_vars, print_vars, page_vars, api_vars, merge_vars, issue_vars, repo_vars, gate_vars, llm_calls>>

\* "return self.cache[repo_name]".
CacheRead(w) ==
  /\ bpc = "pool"
  /\ wpc[w] = "hit"
  /\ wret' = [wret EXCEPT ![w] = cache[repo_names[w]]]
  /\ wpc' = [wpc EXCEPT ![w] = "returned"]
  /\ UNCHANGED <<token, repo_names, batch_size, results, cache, bpc, bi, responses,
                 rest_queue, fallbacks>>
  /\ UNCHANGED <<fn_vars, print_vars, page_vars, api_vars, merge_vars, issue_vars, repo_vars, gate_vars, llm_calls>>

\* _make_request and what follows it up to the cache: nothing came back, a
\* repository's data came back, or something without .get came back.
RestRequest(w) ==
  /\ bpc = "pool"
  /\ wpc[w] = "request"
  /\ \E data \in {"none", "repo", "other"} :
       /\ wpc' = [wpc EXCEPT ![w] = CASE data = "none" -> "returned"
                                      [] data = "repo" -> "store"
                                      [] OTHER -> "raised"]
       /\ wret' = [wret EXCEPT ![w] = IF data = "repo" THEN FoundInfo ELSE NoInfo]
  /\ UNCHANGED <<token, repo_names, batch_size, results, cache, bpc, bi, responses,
                 rest_queue, fallbacks>>
  /\ UNCHANGED <<fn_vars, print_vars, page_vars, api_vars, merge_vars, issue_vars, repo_vars, gate_vars, llm_calls>>

\* "self.cache[repo_name] = result", then "return result".
CacheWrite(w) ==
  /\ bpc = "pool"
  /\ wpc[w] = "store"
  /\ cache' = Put(cache, repo_names[w], wret[w])
  /\ wpc' = [wpc EXCEPT ![w] = "returned"]
  /\ UNCHANGED <<token, repo_names, batch_size, results, bpc, bi, responses,
                 rest_queue, fallbacks, wret>>
  /\ UNCHANGED <<fn_vars, print_vars, page_vars, api_vars, merge_vars, issue_vars, repo_vars, gate_vars, llm_calls>>

\* The as_completed loop: future.result(), None when it raises.
PoolCollect(w) ==
  /\ bpc = "pool"
  /\ wpc[w] \in {"returned", "raised"}
  /\ results' = Put(results, repo_names[w],
                    IF wpc[w] = "raised" THEN NoInfo ELSE wret[w])
  /\ wpc' = [wpc EXCEPT ![w] = "collected"]
  /\ UNCHANGED <<token, repo_names, batch_size, cache, bpc, bi, responses,
                 rest_queue, fallbacks, wret>>
  /\ UNCHANGED <<fn_vars, print_vars, page_vars, api_vars, merge_vars, issue_vars, repo_vars, gate_vars, llm_calls>>

PoolReturn ==
  /\ bpc = "pool"
  /\ \A w \in DOMAIN wpc : wpc[w] = "collected"
  /\ bpc' = "done"
  /\ UNCHANGED <<token, repo_names, batch_size, results, cache, bi, responses,
                 rest_queue, fallbacks, wpc, wret>>
  /\ UNCHANGED <<fn_vars, print_vars, page_vars, api_vars, merge_vars, issue_vars, repo_vars, gate_vars, llm_calls>>

BatchNext ==
  \/ BatchDispatch
  \/ GraphqlBatch
  \/ RestFallback
  \/ GraphqlReturn
  \/ \E w \in DOMAIN wpc :
       \/ PoolStart(w)
       \/ CacheCheck(w)
       \/ CacheRead(w)
       \/ RestRequest(w)
       \/ CacheWrite(w)
       \/ PoolCollect(w)
  \/ PoolReturn

SpecBatch == BatchInit /\ [][BatchNext]_vars

\* The batches answered with data and at least one NOT_FOUND error.
PartialFailures ==
  {k \in DOMAIN responses :
     responses[k].resp.kind = "data" /\ responses[k].resp.not_found # {}}

\* C25: a NOT_FOUND error for one alias does not invalidate the batch: every
\* name of the batch whose sub-query returned data has its record in results,
\* and no name of the batch is looked up one by one as after a failed request.
C25_NotFoundKeepsTheBatch ==
  \A k \in PartialFailures :
    LET batch == responses[k].batch
        resp == responses[k].resp
    IN /\ \A n \in DOMAIN resp.answer :
            resp.answer[n] = "info" => n \in DOMAIN results /\ results[n] = FoundInfo
       /\ \A f \in DOMAIN fallbacks : fallbacks[f].name \notin Range(batch)

\* A batch of two: one alias NOT_FOUND, the other with data.
C25_Witness ==
  /\ bpc = "done"
  /\ \E k \in PartialFailures :
       \E n \in DOMAIN responses[k].resp.answer : responses[k].resp.answer[n] = "info"

\* The names a batch response leaves unresolved: the request did not raise,
\* and the alias is NOT_FOUND, null or missing.
Unresolved(k) ==
  {n \in DOMAIN responses[k].resp.answer :
     /\ responses[k].resp.kind # "raise"
     /\ (n \in responses[k].resp.not_found \/ responses[k].resp.answer[n] # "info")}

\* C26: every name left unresolved by a batch response is looked up with
\* get_repo_info, and what that returned is what the batch returns for it.
C26_UnresolvedFallBackToRest ==
  bpc = "done" /\ token =>
    \A k \in DOMAIN responses : \A n \in Unresolved(k) :
      \E f \in DOMAIN fallbacks :
        /\ fallbacks[f].name = n
        /\ n \in DOMAIN results
        /\ results[n] = fallbacks[f].ret

\* Two pool threads are in statements of get_repo_info that read or write
\* self.cache.
InCache(w) == wpc[w] \in {"check", "hit", "store"}

\* C27: no two pool threads are in a read or a write of self.cache at the same
\* time.
C27_CacheAccessIsExclusive ==
  \A w1, w2 \in DOMAIN wpc : InCache(w1) /\ InCache(w2) => w1 = w2


(***************************************************************************)
(* issue_crawler.py: the progress lines printed while the pool's workers   *)
(* run _process_single_issue.  A print statement is either inside          *)
(* "with self.print_lock" or not; print writes the text and the line end   *)
(* to sys.stdout one after the other, so a line takes time to write.       *)
(***************************************************************************)
\* A print statement: its line in issue_crawler.py, and whether it is inside
\* "with self.print_lock".
Locked(line) == [line |-> line, locked |-> TRUE]
Bare(line) == [line |-> line, locked |-> FALSE]

\* The print statements an item goes through, by where it is rejected and by
\* what the adapters print on the way.
PrintPaths ==
  {<<Locked(476), Locked(483)>>,
   <<Locked(476), Locked(487), Locked(493)>>,
   <<Locked(476), Locked(487), Bare(188), Locked(493)>>,
   <<Locked(476), Locked(487), Bare(208), Locked(493)>>,
   <<Locked(476), Locked(487), Bare(272), Locked(497), Locked(507)>>,
   <<Locked(476), Locked(487), Bare(272), Locked(497), Locked(511), Locked(527)>>,
   <<Locked(476), Locked(487), Locked(497), Locked(511), Locked(527)>>}

PrintInit ==
  /\ print_lock = 0
  /\ path \in [1..MaxWorkers -> PrintPaths]
  /\ at = [w \in 1..MaxWorkers |-> 1]
  /\ phase = [w \in 1..MaxWorkers |-> "before"]
  /\ FnIdle
  /\ BatchIdle
  /\ PageIdle
  /\ ApiIdle
  /\ MergeIdle
  /\ IssueIdle
  /\ RepoIdle
  /\ GateIdle
  /\ llm_calls = <<>>

\* The print statement worker w is at.
Site(w) == path[w][at[w]]

\* "with self.print_lock": entered when the lock is free.
AcquirePrintLock(w) ==
  /\ at[w] <= Len(path[w])
  /\ phase[w] = "before"
  /\ Site(w).locked
  /\ print_lock = 0
  /\ print_lock' = w
  /\ phase' = [phase EXCEPT ![w] = "locked"]
  /\ UNCHANGED <<path, at>>
  /\ UNCHANGED <<fn_vars, batch_vars, page_vars, api_vars, merge_vars, issue_vars, repo_vars, gate_vars, llm_calls>>

\* print(...) starts writing its line.
BeginPrint(w) ==
  /\ at[w] <= Len(path[w])
  /\ phase[w] = (IF Site(w).locked THEN "locked" ELSE "before")
  /\ phase' = [phase EXCEPT ![w] = "writing"]
  /\ UNCHANGED <<print_lock, path, at>>
  /\ UNCHANGED <<fn_vars, batch_vars, page_vars, api_vars, merge_vars, issue_vars, repo_vars, gate_vars, llm_calls>>

\* print(...) returns; outside a with block the worker goes on.
EndPrint(w) ==
  /\ phase[w] = "writing"
  /\ IF Site(w).locked
     THEN /\ phase' = [phase EXCEPT ![w] = "written"]
          /\ UNCHANGED at
     ELSE /\ phase' = [phase EXCEPT ![w] = "before"]
          /\ at' = [at EXCEPT ![w] = @ + 1]
  /\ UNCHANGED <<print_lock, path>>
  /\ UNCHANGED <<fn_vars, batch_vars, page_vars, api_vars, merge_vars, issue_vars, repo_vars, gate_vars, llm_calls>>

\* The end of the with block.
ReleasePrintLock(w) ==
  /\ phase[w] = "written"
  /\ print_lock' = 0
  /\ phase' = [phase EXCEPT ![w] = "before"]
  /\ at' = [at EXCEPT ![w] = @ + 1]
  /\ UNCHANGED path
  /\ UNCHANGED <<fn_vars, batch_vars, page_vars, api_vars, merge_vars, issue_vars, repo_vars, gate_vars, llm_calls>>

PrintNext ==
  \E w \in DOMAIN path :
    \/ AcquirePrintLock(w)
    \/ BeginPrint(w)
    \/ EndPrint(w)
    \/ ReleasePrintLock(w)

SpecPrint == PrintInit /\ [][PrintNext]_vars

\* The workers writing a progress line.
Writing == {w \in DOMAIN phase : phase[w] = "writing"}

\* C28: a worker writes a progress line only while it holds the print lock,
\* so no two workers write at the same time.
C28_ProgressIsWrittenUnderTheLock ==
  /\ \A w \in Writing : print_lock = w
  /\ Cardinality(Writing) <= 1


(***************************************************************************)
(* issue_crawler.py: _get_issue_linked_prs_from_git on the commit messages *)
(* git show gives for the commits git log found.                           *)
(***************************************************************************)
MaxLog == 2

Digits == <<"0", "1", "2", "3", "4", "5", "6", "7", "8", "9">>

IsDigit(c) == \E d \in DOMAIN Digits : Digits[d] = c

\* int(text) of a string of digits.
RECURSIVE ParseInt(_)
ParseInt(text) ==
  IF text = <<>> THEN 0
  ELSE 10 * ParseInt(SubSeq(text, 1, Len(text) - 1))
         + (CHOOSE d \in DOMAIN Digits : Digits[d] = text[Len(text)]) - 1

\* (\d+) from position i: the index of the last digit of the longest run of
\* digits that starts at i, i - 1 when there is none.
RECURSIVE DigitsEnd(_, _)
DigitsEnd(str, i) ==
  IF i <= Len(str) /\ IsDigit(str[i]) THEN DigitsEnd(str, i + 1) ELSE i - 1

\* prefix(\d+)suffix matches at position i of str.
MatchAt(str, prefix, suffix, i) ==
  LET d == i + Len(prefix)
      e == DigitsEnd(str, d)
  IN /\ d - 1 <= Len(str)
     /\ SubSeq(str, i, d - 1) = prefix
     /\ e >= d
     /\ e + Len(suffix) <= Len(str)
     /\ SubSeq(str, e + 1, e + Len(suffix)) = suffix

\* group(1) of the match at position i, as int.
GroupAt(str, prefix, i) ==
  ParseInt(SubSeq(str, i + Len(prefix), DigitsEnd(str, i + Len(prefix))))

ReFindall(str, prefix, suffix) ==
  {GroupAt(str, prefix, i) : i \in {j \in DOMAIN str : MatchAt(str, prefix, suffix, j)}}

\* re.search(pattern, str) followed by "if pr_match: int(pr_match.group(1))":
\* the number at the leftmost match, as a set; empty when nothing matches.
ReSearch(str, prefix, suffix) ==
  LET hits == {j \in DOMAIN str : MatchAt(str, prefix, suffix, j)}
  IN IF hits = {} THEN {}
     ELSE {GroupAt(str, prefix, CHOOSE j \in hits : \A h \in hits : j <= h)}

\* r'Merge pull request #(\d+)' and r'\(#(\d+)\)'.
MergePrefix == <<"M", "e", "r", "g", "e", " ", "p", "u", "l", "l", " ", "r", "e", "q", "u", "e", "s", "t", " ", "#">>
SquashPrefix == <<"(", "#">>
SquashSuffix == <<")">>

\* The loop over commit_lines: what is added to pr_numbers.
RECURSIVE GitLogPrs(_)
GitLogPrs(shown) ==
  IF shown = <<>> THEN {}
  ELSE (IF Head(shown).returncode = 0
        THEN ReSearch(Head(shown).stdout, MergePrefix, <<>>)
               \cup ReSearch(Head(shown).stdout, SquashPrefix, SquashSuffix)
        ELSE {})
       \cup GitLogPrs(Tail(shown))

\* Commit messages as git show prints them.
CommitMessages ==
  {<<"M", "e", "r", "g", "e", " ", "p", "u", "l", "l", " ", "r", "e", "q", "u", "e", "s", "t", " ", "#", "1", " ", "f", "r", "o", "m", " ", "d", "e", "v", "/", "f", "i", "x">>,
   <<"M", "e", "r", "g", "e", " ", "p", "u", "l", "l", " ", "r", "e", "q", "u", "e", "s", "t", " ", "#", "1", " ", "f", "r", "o", "m", " ", "a", "\n", "M", "e", "r", "g", "e", " ", "p", "u", "l", "l", " ", "r", "e", "q", "u", "e", "s", "t", " ", "#", "2", " ", "f", "r", "o", "m", " ", "b">>,
   <<"F", "i", "x", " ", "p", "a", "r", "s", "e", "r", " ", "(", "#", "1", ")">>,
   <<"F", "i", "x", " ", "p", "a", "r", "s", "e", "r", " ", "(", "#", "1", ")", " ", "(", "#", "2", ")">>,
   <<"F", "i", "x", " ", "p", "a", "r", "s", "e", "r", " ", "(", "#", "1", "2", ")">>,
   <<"R", "e", "v", "e", "r", "t", " ", "(", "#", "2", ")", ",", " ", "s", "e", "e", " ", "#", "1">>,
   <<"F", "i", "x", " ", "(", "#", "x", ")", " ", "a", "n", "d", " ", "(", "#", ")">>,
   <<"M", "e", "r", "g", "e", " ", "p", "u", "l", "l", " ", "r", "e", "q", "u", "e", "s", "t", " ", "#", "2", " ", "(", "#", "1", ")">>,
   <<>>}

\* What git show gives for one commit.
Shown == [returncode : {0, 1}, stdout : CommitMessages]

GitLogInit ==
  /\ fn_args \in SeqsUpTo(Shown, MaxLog)
  /\ fn_ret = <<>>
  /\ fn_pc = "called"
  /\ BatchIdle
  /\ PrintIdle
  /\ PageIdle
  /\ ApiIdle
  /\ MergeIdle
  /\ IssueIdle
  /\ RepoIdle
  /\ GateIdle
  /\ llm_calls = <<>>

GitLogCall ==
  /\ fn_pc = "called"
  /\ fn_ret' = <<GitLogPrs(fn_args)>>
  /\ fn_pc' = "returned"
  /\ UNCHANGED <<fn_args, batch_vars, print_vars, page_vars, api_vars, merge_vars, issue_vars, repo_vars, gate_vars, llm_calls>>

SpecGitLog == GitLogInit /\ [][GitLogCall]_vars

\* Every PR reference of a commit message: each occurrence of either form.
AllReferences(commit_msg) ==
  ReFindall(commit_msg, MergePrefix, <<>>)
    \cup ReFindall(commit_msg, SquashPrefix, SquashSuffix)

\* C29: the git-log adapter returns the numbers of all occurrences of
\* "Merge pull request #N" and of "(#N)" in the messages of the commits shown.
C29_GitLogUnionsAllReferences ==
  fn_pc = "returned" =>
    fn_ret[1] = UNION {AllReferences(fn_args[k].stdout) :
                         k \in {j \in DOMAIN fn_args : fn_args[j].returncode = 0}}


(***************************************************************************)
(* repo_merge: merge_all over directories with files that make             *)
(* process_json_file raise: not JSON, or an entry whose stars are null.    *)
(***************************************************************************)
NullableLists ==
  UNION {{[i \in DOMAIN l |-> ObjEntry(l[i], st[i])] :
            st \in [DOMAIN l -> ObjStars \cup {NullStars}]} : l \in NameLists}

ErrorDirectories ==
  {Dated(c) : c \in SeqsUpTo({[prefix |-> ArchivePrefix, data |-> x] :
                                x \in {DictData(ar, <<>>, <<>>) : ar \in NullableLists}
                                        \cup {BadData}}, MaxFiles)}

MergeErrorsInit ==
  /\ json_files \in ErrorDirectories
  /\ args = [detailed |-> FALSE, output |-> OutputName]
  /\ repos = NoRepos
  /\ mpc = "merge_all"
  /\ file_idx = 1
  /\ pending = <<>>
  /\ folded = {}
  /\ run = 1
  /\ first_result = {}
  /\ failed = {}
  /\ IssueIdle
  /\ RepoIdle
  /\ GateIdle
  /\ AuxIdle
  /\ llm_calls = <<>>

MergeErrorsNext == ProcessJsonFile \/ MergeRepo \/ MergeRepoRaises

SpecMergeErrors == MergeErrorsInit /\ [][MergeErrorsNext]_vars

\* merge_all's loop is over.
AllFilesProcessed == mpc = "merge_all" /\ file_idx > Len(json_files)

\* C30: a file whose processing raises is skipped and the merge continues: the
\* file contributes no record and no provenance, nothing of it is folded into
\* the records of earlier files, and the files that do not fail are merged in
\* full.
C30_FailedFileIsSkipped ==
  /\ \A f \in failed :
       /\ \A t \in folded : t.source # f
       /\ \A n \in DOMAIN repos :
            f \notin Range(repos[n].sources) /\ repos[n].first_seen # f
  /\ AllFilesProcessed =>
       \A k \in DOMAIN json_files :
         json_files[k].name \notin failed =>
           Range(Extracted(json_files[k])) \subseteq folded


\* The candidates of step 3 that match a keyword on name and description.
QuickMatch(i) == keyword_filter(star_passed[i].name, star_passed[i].description, <<>>)

\* The README requests of step 3 for candidate i.
KeywordReadmeCalls(i) ==
  {k \in DOMAIN readme_calls :
     readme_calls[k].step = 3 /\ readme_calls[k].name = star_passed[i].name}

DetailCalls(i, n) ==
  {k \in DOMAIN calls[i] : calls[i][k].api = "pulls" /\ calls[i][k].arg = n}

\* The traced adapter calls of issue i that reported PR number n.
ReportedBy(i, n) ==
  {k \in AdapterCalls(i) :
     calls[i][k].api \in NumberAdapters /\ n \in NumbersOf(calls[i][k].ret[1])}

\* C32: for one issue, the details of each candidate PR number are requested
\* at most once, however many adapters reported the number.
C32_DetailsFetchedOncePerNumber ==
  \A i \in DOMAIN calls : \A n \in PRNumbers : Cardinality(DetailCalls(i, n)) <= 1

\* A number reported by two adapter calls, with its details requested.
C32_Witness ==
  \E i \in DOMAIN calls : \E n \in PRNumbers :
    /\ Cardinality(ReportedBy(i, n)) >= 2
    /\ DetailCalls(i, n) # {}
    /\ task[i].pc = "done"


\* The git analysis of issue i ran and found nothing (local clone mode).
GitEmpty(i) ==
  /\ use_local_clone
  /\ calls[i] # <<>>
  /\ calls[i][1].api = "git-log"
  /\ calls[i][1].ret[1].prs = {}

\* C33: in local clone mode, when the git analysis finds nothing, the issue
\* runs every API adapter that API mode runs (timeline, closing events,
\* search) before it is decided.
C33_EmptyGitRerunsWholeApiChain ==
  \A i \in DOMAIN issues :
    GitEmpty(i) /\ PastUnion(i) => {"timeline", "events", "search"} \subseteq Called(i)

\* The positions of issue i's call history that are search requests.
SearchCalls(i) == {k \in DOMAIN calls[i] : calls[i][k].api = "search"}

\* C34: search is the last adapter of the chain, is requested only when local
\* clone mode is off, and each search request comes right after the fixed
\* delay; in local clone mode no search request is made.
C34_SearchIsLastAndDelayed ==
  \A i \in DOMAIN issues :
    /\ use_local_clone => SearchCalls(i) = {}
    /\ \A k \in SearchCalls(i) :
         /\ k > 1
         /\ calls[i][k - 1].api = "sleep"
         /\ calls[i][k - 1].arg = 2
         /\ \A j \in DOMAIN calls[i] : j > k => calls[i][j].api \notin Adapters
    /\ ~use_local_clone /\ PastUnion(i) =>
         /\ Cardinality(SearchCalls(i)) = 1
         /\ {"timeline", "events"} \subseteq Called(i)

\* An issue decided in API mode after its search request.
C34_Witness ==
  \E i \in DOMAIN issues :
    /\ ~use_local_clone
    /\ SearchCalls(i) # {}
    /\ task[i].pc = "done"


\* The position of a name in the candidate list given to filter_repos.
CandidatePos(name) == CHOOSE k \in DOMAIN repos_info : repos_info[k] = name

\* The returned list is in the order of the candidate list.
InCandidateOrder ==
  \A a, b \in DOMAIN agent_repos :
    a < b => CandidatePos(agent_repos[a].name) < CandidatePos(agent_repos[b].name)

\* C35: the list filter_repos returns is the same for every completion order
\* of the keyword checks: the passing candidates in the order they were given.
C35_ResultIgnoresCompletionOrder ==
  rpc = "returned" => InCandidateOrder


(***************************************************************************)
(* issue_crawler.py: _get_all_closed_issues, the pagination of the closed  *)
(* issues.  A page is modelled by how many of its items are issues and how *)
(* many are pull requests.                                                 *)
(***************************************************************************)
MaxPages == 4
PerPage == 100

\* What _make_request returns for a page: None, or a list of items.
NoPage == [ok |-> FALSE, issues |-> 0, prs |-> 0]
PageData ==
  {[ok |-> TRUE, issues |-> a, prs |-> b] :
     a \in {0, 1, PerPage - 1, PerPage}, b \in {0, 1, PerPage}}

\* len(data)
RawLen(data) == data.issues + data.prs

\* The server has at most per_page items on a page, and from page MaxPages on
\* no full page.
ServerPages(p) ==
  {NoPage} \cup {d \in PageData : RawLen(d) <= PerPage /\ (p >= MaxPages => RawLen(d) < PerPage)}

IsLastPage_filtered(data) == data.issues < PerPage

\* "if len(data) < per_page: break"
IsLastPage(data) == RawLen(data) < PerPage

PagesInit ==
  /\ page = 1
  /\ page_log = <<>>
  /\ issue_count = 0
  /\ page_pc = "loop"
  /\ FnIdle
  /\ BatchIdle
  /\ PrintIdle
  /\ ApiIdle
  /\ MergeIdle
  /\ IssueIdle
  /\ RepoIdle
  /\ GateIdle
  /\ llm_calls = <<>>

\* One iteration of "while True".
FetchPage ==
  /\ page_pc = "loop"
  /\ \E data \in ServerPages(page) :
       /\ page_log' = Append(page_log, [page |-> page, data |-> data])
       /\ IF ~data.ok \/ RawLen(data) = 0
          THEN /\ page_pc' = "returned"
               /\ UNCHANGED <<page, issue_count>>
          ELSE /\ issue_count' = issue_count + data.issues
               /\ page' = page + 1
               /\ page_pc' = IF IsLastPage(data) THEN "returned" ELSE "loop"
  /\ UNCHANGED <<fn_vars, batch_vars, print_vars, api_vars, merge_vars, issue_vars, repo_vars, gate_vars, llm_calls>>

PagesNext == FetchPage

SpecPages == PagesInit /\ [][PagesNext]_vars /\ WF_vars(FetchPage)

\* A page that is short, empty or failed.
EndsPaging(data) == ~data.ok \/ RawLen(data) < PerPage

RECURSIVE IssuesOn(_)
IssuesOn(log) ==
  IF log = <<>> THEN 0
  ELSE IssuesOn(SubSeq(log, 1, Len(log) - 1)) + log[Len(log)].data.issues

\* Pages 1, 2, 3, ... are requested in order; no page is requested after one
\* that is short, empty or failed, and the loop has ended after such a page;
\* the collected list holds the issues of the pages, the pull requests left
\* out, and a page is short by its raw length.
PagingIsOrdered ==
  /\ \A k \in DOMAIN page_log : page_log[k].page = k
  /\ \A k \in DOMAIN page_log : k < Len(page_log) => ~EndsPaging(page_log[k].data)
  /\ page_pc = "loop" => \A k \in DOMAIN page_log : ~EndsPaging(page_log[k].data)
  /\ page_pc = "returned" =>
       page_log # <<>> /\ EndsPaging(page_log[Len(page_log)].data)
  /\ issue_count = IssuesOn(page_log)

\* C36: the pages are requested in order, nothing is requested after the first
\* short, empty or failed page, pull requests are dropped without affecting the
\* short-page test, and the loop ends once the server returns such a page.
C36_PaginationStopsAtShortPage ==
  []PagingIsOrdered /\ <>(page_pc = "returned")

\* A full page with a pull request in it was followed by another request.
C36_Witness ==
  /\ page_pc = "returned"
  /\ Len(page_log) >= 2
  /\ page_log[1].data.prs > 0
  /\ page_log[1].data.issues > 0


\* The snapshots of the directory the merger recognises.
Recognised ==
  {k \in DOMAIN json_files :
     /\ json_files[k].name # OutputName
     /\ json_files[k].data.kind = "dict"
     /\ detect_json_type(json_files[k].data, json_files[k].name) # "unknown"}

\* C37: once merge_all has gone through the directory, every repository
\* listed in the agent_repos of a recognised snapshot, as an object or as a
\* bare name, has a record with the snapshot's filename in its sources.
C37_ListedRepositoriesAreMerged ==
  AllFilesProcessed /\ run = 1 =>
    \A k \in Recognised :
      \A e \in DOMAIN json_files[k].data.agent_repos :
        LET name == json_files[k].data.agent_repos[e].name
        IN /\ name \in DOMAIN repos
           /\ json_files[k].name \in Range(repos[name].sources)


(***************************************************************************)
(* repo_merge: merge_repo folded over the same tuples in different orders. *)
(***************************************************************************)
MaxTuples == 3

\* The tuples the extractors build: a name, its stars, the file and its type,
\* and the awesome lists the name came from.
FoldTuples ==
  [name : RepoNames, stars : ObjStars,
   source : {[prefix |-> ArchivePrefix, stem |-> 1], [prefix |-> RepoPrefix, stem |-> 1]},
   source_type : {"github_archive", "github_repo"},
   original_sources : {<<>>, <<"aw1">>}]

FoldInit ==
  /\ fn_args \in SeqsUpTo(FoldTuples, MaxTuples)
  /\ fn_ret = <<>>
  /\ fn_pc = "called"
  /\ BatchIdle
  /\ PrintIdle
  /\ PageIdle
  /\ ApiIdle
  /\ MergeIdle
  /\ IssueIdle
  /\ RepoIdle
  /\ GateIdle
  /\ llm_calls = <<>>

\* "for repo_info in repos: self.merge_repo(repo_info)" from empty self.repos.
FoldCall ==
  /\ fn_pc = "called"
  /\ fn_ret' = <<MergeTuples(NoRepos, fn_args)>>
  /\ fn_pc' = "returned"
  /\ UNCHANGED <<fn_args, batch_vars, print_vars, page_vars, api_vars, merge_vars, issue_vars, repo_vars, gate_vars, llm_calls>>

SpecFold == FoldInit /\ [][FoldCall]_vars

\* The same tuples in every order.
Orders(seq) ==
  {[i \in DOMAIN seq |-> seq[p[i]]] :
     p \in {q \in [DOMAIN seq -> DOMAIN seq] : \A i, j \in DOMAIN seq : q[i] = q[j] => i = j}}

\* Of every record: the stars, the set of sources, the source types and the
\* original sources.
MergedView(rs) ==
  [n \in DOMAIN rs |->
     [stars |-> rs[n].stars, sources |-> Range(rs[n].sources),
      source_types |-> rs[n].source_types,
      original_sources |-> rs[n].original_sources]]

\* C38: the merged records do not depend on the order the tuples are folded
\* in: every permutation of the same tuples gives each repository the same
\* stars, the same set of sources, source types and original sources.
C38_MergeIsOrderIndependent ==
  fn_pc = "returned" =>
    \A p \in Orders(fn_args) :
      MergedView(MergeTuples(NoRepos, p)) = MergedView(fn_ret[1])

\* Three tuples of one repository with different stars, the largest neither
\* first nor last, from two files.
C38_Witness ==
  /\ fn_pc = "returned"
  /\ Len(fn_args) = 3
  /\ \A k \in DOMAIN fn_args : fn_args[k].name = fn_args[1].name
  /\ fn_args[2].stars > fn_args[1].stars
  /\ fn_args[2].stars > fn_args[3].stars
  /\ fn_args[1].source # fn_args[3].source


(***************************************************************************)
(* github_api.py: self.request_count under the pool of get_repos_info_batch *)
(* Each pool thread runs get_repo_info, whose _make_request ends with       *)
(* "self.request_count += 1": a read of the attribute, an addition and a    *)
(* write, with no lock around them.                                         *)
(***************************************************************************)
CountInit ==
  /\ token = FALSE
  /\ repo_names \in BatchLists
  /\ batch_size = DefaultBatchSize
  /\ results = <<>>
  /\ cache \in {<<>>, Put(<<>>, <<"a", "/", "b">>, FoundInfo)}
  /\ bpc = "called"
  /\ bi = 1
  /\ responses = <<>>
  /\ rest_queue = <<>>
  /\ fallbacks = <<>>
  /\ wpc = [w \in DOMAIN repo_names |-> "queued"]
  /\ wret = [w \in DOMAIN repo_names |-> NoInfo]
  /\ loaded = [w \in DOMAIN repo_names |-> [data |-> "none", count |-> 0]]
  /\ succeeded = 0
  /\ lookups = <<>>
  /\ FnIdle
  /\ PrintIdle
  /\ PageIdle
  /\ MergeIdle
  /\ IssueIdle
  /\ RepoIdle
  /\ GateIdle
  /\ llm_calls = <<>>

\* urlopen and json.loads: an HTTPError or another exception (None is
\* returned), or the parsed body: a repository's data or something else.
UrlOpen(w) ==
  /\ bpc = "pool"
  /\ wpc[w] = "request"
  /\ \E data \in {"none", "repo", "other"} :
       /\ loaded' = [loaded EXCEPT ![w].data = data]
       /\ wpc' = [wpc EXCEPT ![w] = IF data = "none" THEN "returned" ELSE "load"]
       /\ succeeded' = IF data = "none" THEN succeeded ELSE succeeded + 1
  /\ UNCHANGED <<token, repo_names, batch_size, results, cache, bpc, bi, responses,
                 rest_queue, fallbacks, wret, lookups>>
  /\ UNCHANGED <<fn_vars, print_vars, page_vars, merge_vars, issue_vars, repo_vars, gate_vars, llm_calls>>

\* "self.request_count += 1": the read of self.request_count.
LoadCount(w) ==
  /\ bpc = "pool"
  /\ wpc[w] = "load"
  /\ loaded' = [loaded EXCEPT ![w].count = request_count]
  /\ wpc' = [wpc EXCEPT ![w] = "add"]
  /\ UNCHANGED <<token, repo_names, batch_size, results, cache, bpc, bi, responses,
                 rest_queue, fallbacks, wret, succeeded, lookups>>
  /\ UNCHANGED <<fn_vars, print_vars, page_vars, merge_vars, issue_vars, repo_vars, gate_vars, llm_calls>>

\* "self.request_count += 1": the write of the sum, then "return data" and
\* get_repo_info's result dict (data.get raises on what is not a dict).
StoreCount(w) ==
  /\ bpc = "pool"
  /\ wpc[w] = "add"
  /\ request_count' = loaded[w].count + 1
  /\ wpc' = [wpc EXCEPT ![w] = IF loaded[w].data = "repo" THEN "store" ELSE "raised"]
  /\ wret' = [wret EXCEPT ![w] = IF loaded[w].data = "repo" THEN FoundInfo ELSE NoInfo]
  /\ UNCHANGED <<token, repo_names, batch_size, results, cache, bpc, bi, responses,
                 rest_queue, fallbacks, loaded, succeeded, lookups>>
  /\ UNCHANGED <<gate, gpc, url, attempts, sleeps, statuses, done_calls>>
  /\ UNCHANGED <<fn_vars, print_vars, page_vars, merge_vars, issue_vars, repo_vars, llm_calls>>

CountNext ==
  \/ BatchDispatch
  \/ \E w \in DOMAIN wpc :
       \/ PoolStart(w)
       \/ CacheCheck(w)
       \/ CacheRead(w)
       \/ UrlOpen(w)
       \/ LoadCount(w)
       \/ StoreCount(w)
       \/ CacheWrite(w)
       \/ PoolCollect(w)
  \/ PoolReturn

SpecCount == CountInit /\ [][CountNext]_vars

\* C39: after get_repos_info_batch has returned from its pool of
\* get_repo_info calls, request_count is the number of requests that returned
\* data during the batch: no increment is lost.
C39_NoIncrementIsLost ==
  bpc = "done" /\ ~token => request_count = succeeded


(***************************************************************************)
(* github_api.py: get_repo_info called several times, one call after the   *)
(* other, on one GitHubAPI object.                                          *)
(***************************************************************************)
MaxLookups == 3

LookupNames == {<<"a", "/", "b">>, <<"c", "/", "d">>}

\* What _make_request returns: None, a repository's JSON object with its
\* stargazers_count, or a JSON value that has no .get.
ServerData ==
  {[kind |-> "none", stars |-> 0], [kind |-> "other", stars |-> 0]}
  \cup {[kind |-> "repo", stars |-> st] : st \in {DefaultMinStars, DefaultMinStars + 1}}

IsFailed_never(data) == FALSE

\* "if not data: return None"
IsFailed(data) == data.kind = "none"

\* The result dict built from data.
ResultOf(data) ==
  IF data.kind = "repo"
  THEN [found |-> TRUE, stars |-> data.stars, description |-> <<>>]
  ELSE NoInfo

LookupsInit ==
  /\ token \in BOOLEAN
  /\ repo_names = <<>>
  /\ batch_size = 0
  /\ results = <<>>
  /\ cache = <<>>
  /\ bpc = "idle"
  /\ bi = 1
  /\ responses = <<>>
  /\ rest_queue = <<>>
  /\ fallbacks = <<>>
  /\ wpc = <<>>
  /\ wret = <<>>
  /\ loaded = <<>>
  /\ succeeded = 0
  /\ lookups = <<>>
  /\ FnIdle
  /\ PrintIdle
  /\ PageIdle
  /\ MergeIdle
  /\ IssueIdle
  /\ RepoIdle
  /\ GateIdle
  /\ llm_calls = <<>>

\* One whole get_repo_info(repo_name): the cached record, or a request and
\* then None, an exception from data.get, or the result that is cached.
GetRepoInfo(repo_name) ==
  /\ Len(lookups) < MaxLookups
  /\ IF repo_name \in DOMAIN cache
     THEN /\ lookups' = Append(lookups, [name |-> repo_name, requested |-> FALSE,
                                         raised |-> FALSE, ret |-> cache[repo_name]])
          /\ UNCHANGED <<cache, request_count, succeeded>>
     ELSE \E data \in ServerData :
            /\ request_count' = IF data.kind = "none" THEN request_count
                                ELSE request_count + 1
            /\ succeeded' = IF data.kind = "none" THEN succeeded ELSE succeeded + 1
            /\ IF IsFailed(data)
               THEN /\ lookups' = Append(lookups, [name |-> repo_name, requested |-> TRUE,
                                                   raised |-> FALSE, ret |-> NoInfo])
                    /\ UNCHANGED cache
               ELSE IF data.kind = "other"
               THEN /\ lookups' = Append(lookups, [name |-> repo_name, requested |-> TRUE,
                                                   raised |-> TRUE, ret |-> NoInfo])
                    /\ UNCHANGED cache
               ELSE /\ cache' = Put(cache, repo_name, ResultOf(data))
                    /\ lookups' = Append(lookups, [name |-> repo_name, requested |-> TRUE,
                                                   raised |-> FALSE, ret |-> ResultOf(data)])
  /\ UNCHANGED <<token, repo_names, batch_size, results, bpc, bi, responses,
                 rest_queue, fallbacks, wpc, wret, loaded>>
  /\ UNCHANGED <<gate, gpc, url, attempts, sleeps, statuses, done_calls>>
  /\ UNCHANGED <<fn_vars, print_vars, page_vars, merge_vars, issue_vars, repo_vars, llm_calls>>

LookupsNext == \E repo_name \in LookupNames : GetRepoInfo(repo_name)

SpecLookups == LookupsInit /\ [][LookupsNext]_vars

\* The calls before call j that returned a record for the same name.
SucceededBefore(j) ==
  {k \in 1..(j - 1) : lookups[k].name = lookups[j].name /\ lookups[k].ret.found}

\* C40: the cache holds only records of successful lookups and none is ever
\* removed or replaced: once get_repo_info has returned a record for a name,
\* every later call for that name returns that record without a request; a
\* call that returned None leaves the name out of the cache, and the next call
\* for the name makes a request again.
C40_CacheHoldsOnlySuccesses ==
  /\ \A n \in DOMAIN cache :
       /\ cache[n].found
       /\ \E k \in DOMAIN lookups :
            lookups[k].name = n /\ lookups[k].requested /\ lookups[k].ret = cache[n]
  /\ \A j \in DOMAIN lookups :
       IF SucceededBefore(j) = {}
       THEN lookups[j].requested
       ELSE /\ ~lookups[j].requested
            /\ \A k \in SucceededBefore(j) : lookups[j].ret = lookups[k].ret
            /\ cache[lookups[j].name] = lookups[j].ret

\* A name looked up three times: None, then a record, then the record again.
C40_Witness ==
  /\ Len(lookups) = 3
  /\ \A k \in DOMAIN lookups : lookups[k].name = lookups[1].name
  /\ lookups[1].requested /\ ~lookups[1].ret.found /\ ~lookups[1].raised
  /\ lookups[2].requested /\ lookups[2].ret.found
  /\ ~lookups[3].requested /\ lookups[3].ret = lookups[2].ret

=============================================================================
